---- MODULE Spec2Model ----
(***************************************************************************)
(* A model of the ZRLE decoder of rust-vnc (src/src/zrle.rs).              *)
(*                                                                         *)
(* The decoder state is the slot Decoder.decompressor plus, while a call   *)
(* of Decoder::decode is running, the locals of that call.  The inflated   *)
(* bytes that the ZlibReader can still deliver are kept explicitly         *)
(* (stream); how many compressed bytes flate2 consumes to deliver them is  *)
(* left open (any split the Decompress API allows).                        *)
(*                                                                         *)
(* Beside the decoder (Spec) the module holds read_run_length on its own   *)
(* (SpecRunLength), BitReader and the row loop of a packed palette tile    *)
(* (SpecBitReader), and of the client src/bin/client.rs the cursor mask    *)
(* (SpecCursor), main with its event loop (SpecHost), the loop over the    *)
(* SDL events alone (SpecInput) and the authentication closure (SpecAuth), *)
(* and of the proxy src/bin/proxy.rs the accept loop (SpecProxy).  Each of *)
(* these specifications moves its own variables and leaves the others at   *)
(* rest.                                                                   *)
(***************************************************************************)
EXTENDS Integers, Sequences, FiniteSets, TLC

VARIABLES
    slot,          \* Decoder.decompressor: "Some" (the inflate context) or "None"
    pc,            \* position of the running decode call, or "idle" / "panicked"
    format,        \* parameter format
    rect,          \* parameter rect
    inLen,         \* input.len() at entry
    prior,         \* what the decode call before this one returned ("none": no such call)
    valid,         \* the inflated stream is a valid payload for (format, rect) per spec 4.6
    zin,           \* ZlibReader.input.len(): compressed bytes not yet consumed
    stream,        \* inflated bytes the decompressor can still produce for this call
    buffer,        \* BitReader.buffer
    position,      \* BitReader.position
    x, y,          \* loop counters of decode
    width, height, \* size of the current tile
    is_rle,        \* tile header, bit 7
    palette_size,  \* tile header, bits 6..0
    palette,       \* Vec<[u8; 4]>
    pixels,        \* Vec<u8> of the current tile: [len, last] (byte length, last slice pushed)
    count,         \* pixel counter of the RLE loops
    row,           \* row counter of the packed palette loop
    pixRead,       \* bytes taken from the stream by the latest read_pixel (-1: none yet)
    pixSent,       \* the cpixel (of the size section 4.6 gives) that lay at the head of
                   \* the stream when the latest read_pixel began (<< >>: none, or too short)
    pixGot,        \* the [u8; 4] the latest read_pixel returned
    result,        \* what the latest decode call returned ("none" before any return)
    ncalls,        \* callback invocations of the current / latest decode call
    tile,          \* Rect passed to the latest callback invocation
    cbLen,         \* byte length of the pixel buffer passed to the latest callback
    cbPix,         \* last pixel slice of the buffer passed to the latest callback
    inGrid,        \* every callback of this call so far got the next tile of the grid
    cbArea,        \* sum of width * height over the tiles passed to the callback
    rlIn,          \* read_run_length alone: the bytes the reader holds
    rlOut,         \* read_run_length alone: its outcome
    setCursor,     \* client: the SetCursor event delivered: [width, height, mask_bits]
    cursor,        \* client: the cursor texture, [width, height, alpha], alpha being
                   \* the alpha byte of every pixel of cursor_pixels in order
    args,          \* client: the options given on the command line
    hpc,           \* client: position of main
    clock,         \* client: the latest value read from sdl_timer.ticks()
    evLeft,        \* client: events (of the server and of SDL) still to come
    event,         \* client: the event the latest step handled
    sent,          \* client: the messages the latest step sent to the server
    encodings,     \* client: the lists passed to set_encodings so far
    vnc_format,    \* client: vnc_format
    size,          \* client: (width, height) of the framebuffer
    incremental,   \* client: incremental
    ticks,         \* client: ticks, read at the top of the main loop
    qemu_network_rtt, qemu_prev_update, qemu_next_update,
    mouse_buttons, mouse_x, mouse_y, key_ctrl,
    covered,       \* client, history: the rects of the PutPixels events since the latest
                   \* Resize (since the start, before any)
    pressed,       \* client, history: << keycode, keysym >> of every key whose latest
                   \* KeyDown sent KeyEvent(true, keysym) and that was not released since
    held,          \* client, history: the mouse buttons that are down by the
                   \* MouseButtonDown and MouseButtonUp events so far
    methods,       \* client, the authentication closure: the methods the server offers
    username,      \* client, the closure: whether --username was given
    password,      \* client, the closure: whether --password was given
    choice,        \* client, the closure: what it returned ("pending" before the call)
    ppc,           \* proxy: position of main in the accept loop
    client_stream, \* proxy: the stream of the connection accepted in this iteration
    server_stream, \* proxy: the stream to the server of this iteration
    outcomes,      \* proxy, history: how the iterations so far ended
    reader,        \* BitReader alone: [stream, buffer, position]
    call,          \* BitReader alone: the latest read_bits call, [count, before, st, value]
    rows           \* the row loop of a packed palette tile alone: the tile, the row and
                   \* column counters, the indices read in this row, the stream at entry

vars == << slot, pc, format, rect, inLen, prior, valid, zin, stream, buffer,
           position, x, y, width, height, is_rle, palette_size, palette, pixels,
           count, row, pixRead, pixSent, pixGot, result, ncalls, tile, cbLen, cbPix,
           inGrid, cbArea,
           rlIn, rlOut, setCursor, cursor,
           args, hpc, clock, evLeft, event, sent, encodings, vnc_format, size,
           incremental, ticks, qemu_network_rtt, qemu_prev_update, qemu_next_update,
           mouse_buttons, mouse_x, mouse_y, key_ctrl, covered, pressed, held,
           methods, username, password, choice, ppc, client_stream, server_stream,
           outcomes, reader, call, rows >>

-----------------------------------------------------------------------------
(* Bounds of the exploration *)

MaxIn == 2
MaxRunSeq == 4
MaxCursorWidth == 9
MaxCursorHeight == 2
MaxEvents == 3
MaxTicks == 600
MaxRowBytes == 3
MaxRowWidth == 9
MaxInputs == 4
MaxMethods == 3
MaxConns == 3

(* Program constants *)

TileSize == 64
U16Range == 65536

Min(a, b) == IF a < b THEN a ELSE b

-----------------------------------------------------------------------------
(* Pixel formats.  A u32 mask is kept as the set of its one-bits. *)

BitsOf(n) == { i \in 0..15 : (n \div (2^i)) % 2 = 1 }

\* (max as u32) << shift
Shl32(max, shift) == { i + shift : i \in BitsOf(max) } \cap (0..31)

pixel_mask(f) ==
    Shl32(f.red_max, f.red_shift) \cup Shl32(f.green_max, f.green_shift)
        \cup Shl32(f.blue_max, f.blue_shift)

bpp(f) == f.bits_per_pixel \div 8

\* let (compressed_bpp, pad_pixel) = ...: the first component
compressed_bpp(f) ==
    IF f.bits_per_pixel = 32 /\ f.true_colour /\ f.depth <= 24
    THEN IF pixel_mask(f) \cap (0..7) = {} THEN 3
         ELSE IF pixel_mask(f) \cap (24..31) = {} THEN 3
         ELSE 4
    ELSE f.bits_per_pixel \div 4

\* let (compressed_bpp, pad_pixel) = ...: the second component
pad_pixel(f) ==
    IF f.bits_per_pixel = 32 /\ f.true_colour /\ f.depth <= 24
    THEN IF pixel_mask(f) \cap (0..7) = {} THEN ~f.big_endian
         ELSE IF pixel_mask(f) \cap (24..31) = {} THEN f.big_endian
         ELSE FALSE
    ELSE FALSE

Fmt(bits, dep, be, tc, rm, gm, bm, rs, gs, bs) ==
    [ bits_per_pixel |-> bits, depth |-> dep, big_endian |-> be, true_colour |-> tc,
      red_max |-> rm, green_max |-> gm, blue_max |-> bm,
      red_shift |-> rs, green_shift |-> gs, blue_shift |-> bs ]

RGB888le  == Fmt(32, 24, FALSE, TRUE, 255, 255, 255, 16, 8, 0)
RGB888be  == Fmt(32, 24, TRUE,  TRUE, 255, 255, 255, 16, 8, 0)
RGBX888le == Fmt(32, 24, FALSE, TRUE, 255, 255, 255, 24, 16, 8)
RGBX888be == Fmt(32, 24, TRUE,  TRUE, 255, 255, 255, 24, 16, 8)
Split888  == Fmt(32, 24, FALSE, TRUE, 255, 255, 255, 24, 8, 0)
Deep32    == Fmt(32, 32, FALSE, TRUE, 255, 255, 255, 16, 8, 0)
Mapped32  == Fmt(32, 24, FALSE, FALSE, 255, 255, 255, 16, 8, 0)
RGB565    == Fmt(16, 16, FALSE, TRUE, 31, 63, 31, 11, 5, 0)
RGB332    == Fmt(8, 8, FALSE, TRUE, 7, 7, 3, 5, 2, 0)

Formats == { RGB888le, RGB888be, RGBX888le, RGBX888be, Split888, Deep32, Mapped32,
             RGB565, RGB332 }

-----------------------------------------------------------------------------
(* ZlibReader: the inflated stream.  A stream is head (read up to off),    *)
(* then reps copies of blk, then tail; end says what Decompress::decompress *)
(* does once these bytes are used up: "eof" (it produces nothing more) or   *)
(* "err" (it reports an error or the end of the zlib stream).               *)

\* n copies of the byte sequence p
Rep(p, n) == [ i \in 1..(n * Len(p)) |-> p[((i - 1) % Len(p)) + 1] ]

CeilDiv(a, b) == (a + b - 1) \div b

Bytes(seq) ==
    [ head |-> seq, off |-> 0, blk |-> << >>, reps |-> 0, tail |-> << >>, end |-> "eof" ]
NoBytes == Bytes(<< >>)
Failing(seq) == [ Bytes(seq) EXCEPT !.end = "err" ]
Periodic(h, b, n, tl) ==
    IF n = 0 THEN Bytes(h \o tl)
    ELSE [ head |-> h, off |-> 0, blk |-> b, reps |-> n, tail |-> tl, end |-> "eof" ]

\* the number of bytes left, the i-th of them, and the stream without the first n
Avail(s) == (Len(s.head) - s.off) + Len(s.blk) * s.reps + Len(s.tail)

ByteAt(s, i) ==
    LET hl == Len(s.head) - s.off
        pl == Len(s.blk) * s.reps
    IN  IF i <= hl THEN s.head[s.off + i]
        ELSE IF i <= hl + pl THEN s.blk[((i - hl - 1) % Len(s.blk)) + 1]
        ELSE s.tail[i - hl - pl]

Drop(s, n) ==
    LET hl == Len(s.head) - s.off
        pl == Len(s.blk) * s.reps
        q  == (n - hl) \div Len(s.blk)
        r  == (n - hl) % Len(s.blk)
    IN  IF n <= hl THEN [ s EXCEPT !.off = s.off + n ]
        ELSE IF n >= hl + pl
        THEN [ head |-> s.tail, off |-> n - hl - pl, blk |-> << >>, reps |-> 0,
               tail |-> << >>, end |-> s.end ]
        ELSE IF r = 0
        THEN [ head |-> << >>, off |-> 0, blk |-> s.blk, reps |-> s.reps - q,
               tail |-> s.tail, end |-> s.end ]
        ELSE IF s.reps - q - 1 = 0
        THEN [ head |-> s.blk \o s.tail, off |-> r, blk |-> << >>, reps |-> 0,
               tail |-> << >>, end |-> s.end ]
        ELSE [ head |-> s.blk, off |-> r, blk |-> s.blk, reps |-> s.reps - q - 1,
               tail |-> s.tail, end |-> s.end ]

\* m bytes of s after the first off, if s has that many
Peek(s, off, m) ==
    IF Avail(s) >= off + m THEN [ i \in 1..m |-> ByteAt(s, off + i) ] ELSE << >>

\* read_exact over ZlibReader::read: n bytes, or UnexpectedEof when decompress
\* produces nothing more (Status::Ok with 0 bytes, or BufError), or InvalidData
\* (Err / StreamEnd)
ZlibRead(s, n) ==
    IF Avail(s) < n
    THEN [ st |-> IF s.end = "err" THEN "Io(InvalidData)" ELSE "Io(UnexpectedEof)",
           bytes |-> << >>, rest |-> [ NoBytes EXCEPT !.end = s.end ] ]
    ELSE [ st |-> "ok", bytes |-> [ i \in 1..n |-> ByteAt(s, i) ], rest |-> Drop(s, n) ]

\* The compressed bytes left in ZlibReader.input after a read that moved the
\* stream from s to s2 with status st: decompress consumed some of them.
ZinAfter(z, len, s, s2, st) ==
    IF st = "Io(UnexpectedEof)" THEN { 0 }
    ELSE IF st \in { "Io(unaligned ZRLE byte read)", "Io(unaligned ZRLE bit read)" }
    THEN { z }
    ELSE IF st = "ok" /\ s2 = s THEN { z }
    ELSE IF st = "ok" THEN { k \in 0..z : (z = len) => (k < z) }
    ELSE 0..z

\* into_inner without the check of input.len()
ZlibReader_into_inner_mutant(z) == "ok"

\* ZlibReader::into_inner
ZlibReader_into_inner(z) ==
    IF z = 0 THEN "ok" ELSE "Unexpected(leftover ZRLE byte data)"

-----------------------------------------------------------------------------
(* BitReader *)

\* impl Read for BitReader: byte reads need an aligned reader
BitReader_read(s, pos, n) ==
    IF pos = 8 THEN ZlibRead(s, n)
    ELSE [ st |-> "Io(unaligned ZRLE byte read)", bytes |-> << >>, rest |-> s ]

\* BitReader::into_inner
BitReader_into_inner(pos) ==
    IF pos = 8 THEN "ok" ELSE "Unexpected(leftover ZRLE bit data)"

\* BitReader::read_bits with the mask (1 << count) - 1 as it is for count < 8, which
\* covers the counts decode uses (1, 2, 4, 7)
read_bits(s, buf, pos, cnt) ==
    LET r    == IF pos = 8 THEN ZlibRead(s, 1)
                ELSE [ st |-> "ok", bytes |-> << buf >>, rest |-> s ]
        buf1 == IF r.st = "ok" THEN r.bytes[1] ELSE buf
        pos1 == IF pos = 8 /\ r.st = "ok" THEN 0 ELSE pos
    IN  IF r.st # "ok"
        THEN [ st |-> r.st, value |-> 0, rest |-> r.rest, buffer |-> buf, position |-> pos ]
        ELSE IF pos1 + cnt <= 8
        THEN [ st |-> "ok",
               value |-> (buf1 \div (2^(8 - (cnt + pos1)))) % (2^cnt),
               rest |-> r.rest, buffer |-> buf1, position |-> pos1 + cnt ]
        ELSE [ st |-> "Io(unaligned ZRLE bit read)", value |-> 0,
               rest |-> r.rest, buffer |-> buf1, position |-> pos1 ]

\* BitReader::read_bits for every count the assert admits.  For count = 8 the mask
\* (1 << count) - 1 is computed in u8: the shift overflows, which panics in a build
\* with overflow checks and otherwise shifts by 8 % 8 = 0, so that the mask is 0
read_bits_any(s, buf, pos, cnt) ==
    LET r == read_bits(s, buf, pos, cnt)
    IN  IF cnt < 8 \/ r.st # "ok" THEN { r }
        ELSE { [ r EXCEPT !.st = "panic(shift overflow)", !.value = 0 ],
               [ r EXCEPT !.value = 0 ] }

\* an align that leaves the position alone
align_mutant(pos) == pos

\* BitReader::align
align(pos) == 8

-----------------------------------------------------------------------------
(* The helpers nested in Decoder::decode *)

\* &pixel[0..n]
Slice(pixel, n) == SubSeq(pixel, 1, n)

\* the [u8; 4] that read_pixel fills: bytes go to entry[lo..hi]
Entry(bytes, lo, hi) == [ i \in 1..4 |-> IF i > lo /\ i <= hi THEN bytes[i - lo] ELSE 0 ]

\* read_pixel(reader, pad, bpp): entry[if pad {1} else {0}..bpp] of a [u8; 4];
\* a slice end beyond 4 panics before anything is read
read_pixel(s, pos, pad, cb) ==
    LET lo == IF pad THEN 1 ELSE 0
        r  == BitReader_read(s, pos, cb - lo)
    IN  IF cb > 4
        THEN [ st |-> "panic(slice index)", pixel |-> << 0, 0, 0, 0 >>, rest |-> s, used |-> 0 ]
        ELSE IF r.st # "ok"
        THEN [ st |-> r.st, pixel |-> << 0, 0, 0, 0 >>, rest |-> r.rest, used |-> 0 ]
        ELSE [ st |-> "ok", pixel |-> Entry(r.bytes, lo, cb), rest |-> r.rest,
               used |-> cb - lo ]

\* n calls of read_pixel in a row (the palette loop, the raw loop): the pixels read
\* and the last of them, or the first failure
read_pixels(s, pos, pad, cb, n) ==
    LET lo == IF pad THEN 1 ELSE 0
        k  == cb - lo
    IN  IF n = 0
        THEN [ st |-> "ok", list |-> << >>, last |-> << >>, rest |-> s, used |-> 0 ]
        ELSE IF cb > 4
        THEN [ st |-> "panic(slice index)", list |-> << >>, last |-> << >>, rest |-> s, used |-> 0 ]
        ELSE IF BitReader_read(s, pos, n * k).st # "ok"
        THEN [ st |-> BitReader_read(s, pos, n * k).st, list |-> << >>, last |-> << >>,
               rest |-> BitReader_read(s, pos, n * k).rest, used |-> 0 ]
        ELSE [ st |-> "ok",
               list |-> [ j \in 1..n |->
                            Entry([ i \in 1..k |-> ByteAt(s, (j - 1) * k + i) ], lo, cb) ],
               last |-> Entry([ i \in 1..k |-> ByteAt(s, (n - 1) * k + i) ], lo, cb),
               rest |-> Drop(s, n * k), used |-> k ]

RECURSIVE run_length_loop(_, _, _, _)
\* while run_length_part == 255 { ... }: k bytes of s are read, the last was part
run_length_loop(s, k, part, acc) ==
    IF part # 255
    THEN [ st |-> "ok", value |-> acc, rest |-> Drop(s, k) ]
    ELSE IF Avail(s) <= k
    THEN [ st |-> ZlibRead(s, k + 1).st, value |-> 0, rest |-> ZlibRead(s, k + 1).rest ]
    ELSE run_length_loop(s, k + 1, ByteAt(s, k + 1), acc + ByteAt(s, k + 1))

\* read_run_length with an accumulator that starts at the first byte
read_run_length_mutant(s, pos) ==
    IF BitReader_read(s, pos, 1).st # "ok"
    THEN [ st |-> BitReader_read(s, pos, 1).st, value |-> 0,
           rest |-> BitReader_read(s, pos, 1).rest ]
    ELSE run_length_loop(s, 1, ByteAt(s, 1), ByteAt(s, 1))

\* read_run_length(reader)
read_run_length(s, pos) ==
    IF BitReader_read(s, pos, 1).st # "ok"
    THEN [ st |-> BitReader_read(s, pos, 1).st, value |-> 0,
           rest |-> BitReader_read(s, pos, 1).rest ]
    ELSE run_length_loop(s, 1, ByteAt(s, 1), 1 + ByteAt(s, 1))

\* match palette_size { 2 => 1, 3...4 => 2, 5...16 => 4 }
bits_per_index(ps) == IF ps = 2 THEN 1 ELSE IF ps <= 4 THEN 2 ELSE 4

\* the arm of match (is_rle, palette_size) that is taken
subencoding(rle, ps) ==
    IF ~rle /\ ps = 0 THEN "raw"
    ELSE IF ~rle /\ ps = 1 THEN "fill"
    ELSE IF ~rle /\ ps >= 2 /\ ps <= 16 THEN "packed"
    ELSE IF rle /\ ps = 0 THEN "plain_rle"
    ELSE IF rle /\ ps >= 2 /\ ps <= 127 THEN "palette_rle"
    ELSE "bad"

\* the index that read_bits(bits) yields as the i-th of a row that starts
\* byte-aligned: it comes from the stream's byte number IndexByte(i, bits)
IndexByte(i, bits) == ((i - 1) * bits) \div 8 + 1
IndexAt(s, i, bits) ==
    read_bits(NoBytes, ByteAt(s, IndexByte(i, bits)), ((i - 1) * bits) % 8, bits).value

RECURSIVE first_bad(_, _, _, _, _)
\* the first of the indices i..got that is not in the palette, or got + 1
first_bad(s, bits, ps, i, got) ==
    IF i > got THEN got + 1
    ELSE IF IndexAt(s, i, bits) >= ps THEN i
    ELSE first_bad(s, bits, ps, i + 1, got)

\* the reader after a row of n indices of which got can be read and index stop
\* (if stop <= got) is not in the palette
row_end(s, bits, n, got, stop) ==
    IF n = 0
    THEN [ st |-> "ok", rest |-> s, buffer |-> 0, position |-> 8, index |-> 0 ]
    ELSE IF stop > got /\ got < n
    THEN [ st |-> ZlibRead(s, Avail(s) + 1).st, rest |-> ZlibRead(s, Avail(s) + 1).rest,
           buffer |-> IF got = 0 THEN 0 ELSE ByteAt(s, IndexByte(got, bits)),
           position |-> 8, index |-> 0 ]
    ELSE [ st |-> IF stop <= got THEN "panic(palette index)" ELSE "ok",
           rest |-> Drop(s, IndexByte(Min(stop, got), bits)),
           buffer |-> ByteAt(s, IndexByte(Min(stop, got), bits)),
           position |-> (((Min(stop, got) - 1) * bits) % 8) + bits,
           index |-> IndexAt(s, Min(stop, got), bits) ]

\* for _ in 0..width { read_bits(bits_per_index); palette[index] }: n indices from a
\* reader at position 8 (the header and the palette were read through Read, and the
\* row before ended with align()).  The first index that cannot be read, or that is
\* not in the palette, ends the row.
packed_row(s, bits, ps, n) ==
    CHOOSE r \in { row_end(s, bits, n, got, stop) :
                      got \in { Min(n, (Avail(s) * 8) \div bits) },
                      stop \in { first_bad(s, bits, ps, 1, Min(n, (Avail(s) * 8) \div bits)) } } :
        TRUE

-----------------------------------------------------------------------------
(* The inputs explored.  A call of decode gets a format, a rect, a         *)
(* compressed slice of inLen bytes and the bytes that slice inflates to.   *)
(* Valid payloads are built as section 4.6 of the specification lays them  *)
(* out; the other streams are damaged variants of them.                    *)

Rc(l, t, w, h) == [ left |-> l, top |-> t, width |-> w, height |-> h ]

\* cpixel size by the rule of section 4.6
SpecCPixel(f) ==
    IF f.bits_per_pixel = 32 /\ f.true_colour /\ f.depth <= 24
       /\ (pixel_mask(f) \cap (0..7) = {} \/ pixel_mask(f) \cap (24..31) = {})
    THEN 3
    ELSE f.bits_per_pixel \div 8

WordA == << 170, 187, 204, 221 >>
WordB == << 17, 34, 51, 68 >>

\* a palette of n cpixels of cp bytes: entry j (from 0) is j+1 in every byte
PalBytes(n, cp) == [ i \in 1..(n * cp) |-> ((i - 1) \div cp) + 1 ]

\* the base-255 encoding of a run of n >= 1 pixels
RunLenBytes(n) ==
    [ i \in 1..(((n - 1) \div 255) + 1) |->
        IF i <= (n - 1) \div 255 THEN 255 ELSE (n - 1) % 255 ]

\* a row byte whose indices all lie below the palette size ps
IdxByte(ps) == IF ps = 2 THEN 85 ELSE IF ps = 3 THEN 24 ELSE IF ps = 4 THEN 27 ELSE 4

ValidKinds == { "raw", "fill", "packed2", "packed3", "packed4", "packed5", "packed16",
                "plain_rle", "plain_rle2", "palette_rle", "palette_rle1" }

PackedSize(kind) ==
    IF kind = "packed2" THEN 2 ELSE IF kind = "packed3" THEN 3
    ELSE IF kind = "packed4" THEN 4 ELSE IF kind = "packed5" THEN 5 ELSE 16

\* a valid payload of one w x h tile with cpixels of cp bytes
ValidTile(kind, w, h, cp) ==
    LET A == SubSeq(WordA, 1, cp)
        B == SubSeq(WordB, 1, cp)
    IN  CASE kind = "raw"  -> << 0 >> \o Rep(A, w * h)
          [] kind = "fill" -> << 1 >> \o A
          [] kind \in { "packed2", "packed3", "packed4", "packed5", "packed16" } ->
                << PackedSize(kind) >> \o PalBytes(PackedSize(kind), cp)
                  \o Rep(<< IdxByte(PackedSize(kind)) >>,
                         h * CeilDiv(w * bits_per_index(PackedSize(kind)), 8))
          [] kind = "plain_rle" -> << 128 >> \o A \o RunLenBytes(w * h)
          [] kind = "plain_rle2" ->
                IF w * h = 1 THEN << 128 >> \o B \o << 0 >>
                ELSE << 128 >> \o A \o RunLenBytes(w * h - 1) \o B \o << 0 >>
          [] kind = "palette_rle" ->
                << 130 >> \o PalBytes(2, cp) \o << 129 >> \o RunLenBytes(w * h)
          [] kind = "palette_rle1" ->
                << 255 >> \o PalBytes(127, cp) \o << 126 >>
                  \o (IF w * h = 1 THEN << >> ELSE << 128 >> \o RunLenBytes(w * h - 1))

\* the 64 x 64 grid of a rect, row-major, by section 4.6
GridCols(r) == CeilDiv(r.width, TileSize)
GridRows(r) == CeilDiv(r.height, TileSize)
GridTile(r, n) ==
    LET i == n % GridCols(r)
        j == n \div GridCols(r)
    IN  Rc(r.left + TileSize * i, r.top + TileSize * j,
           Min(TileSize, r.width - TileSize * i), Min(TileSize, r.height - TileSize * j))

RECURSIVE ValidFrom(_, _, _, _)
ValidFrom(kind, r, cp, n) ==
    IF n >= GridCols(r) * GridRows(r) THEN << >>
    ELSE ValidTile(kind, GridTile(r, n).width, GridTile(r, n).height, cp)
           \o ValidFrom(kind, r, cp, n + 1)

\* a valid payload of the whole rect: every tile in the same subencoding
ValidStream(kind, r, cp) ==
    IF kind = "fill"
    THEN Periodic(<< >>, ValidTile("fill", 1, 1, cp), GridCols(r) * GridRows(r), << >>)
    ELSE IF kind = "raw" /\ GridCols(r) * GridRows(r) = 1
    THEN Periodic(<< 0 >>, SubSeq(WordA, 1, cp), r.width * r.height, << >>)
    ELSE Bytes(ValidFrom(kind, r, cp, 0))

\* damaged variants of a one-tile payload
BadStreams(w, h, cp) ==
    LET A == SubSeq(WordA, 1, cp)
    IN  { Failing(<< >>), Failing(<< 1 >>) } \cup
        { Bytes(q) : q \in {
          << >>,
          << 17 >>, << 17 >> \o PalBytes(17, cp), << 127 >> \o PalBytes(127, cp),
          << 129 >>, << 129 >> \o A,
          << 128 >> \o A \o << 255 >>,
          << 128 >> \o A \o RunLenBytes(w * h + 1),
          << 128 >> \o A \o RunLenBytes(w * h + 300),
          << 130 >> \o PalBytes(2, cp) \o << 129 >> \o RunLenBytes(w * h + 1),
          << 130 >> \o PalBytes(2, cp) \o << 2 >>,
          << 130 >> \o PalBytes(2, cp) \o << 133, 0 >>,
          << 3 >> \o PalBytes(3, cp) \o Rep(<< 255 >>, h * CeilDiv(w * 2, 8)),
          << 5 >> \o PalBytes(5, cp) \o Rep(<< 9 >>, h * CeilDiv(w * 4, 8)) } }

DropLast(q) == SubSeq(q, 1, Len(q) - 1)

\* a stream cut one byte short
Truncated(s) ==
    IF s.reps > 0 THEN Periodic(s.head, s.blk, s.reps - 1, DropLast(s.blk))
    ELSE Bytes(DropLast(s.head))

ZeroRects == { Rc(0, 0, 0, 0), Rc(0, 0, 0, 2), Rc(3, 4, 2, 0) }
SmallRects == { Rc(0, 0, 1, 1), Rc(5, 6, 4, 1), Rc(0, 0, 3, 2) }
FullRects == { Rc(0, 0, 64, 64) }
GridRects == { Rc(0, 0, 65, 1), Rc(10, 20, 130, 65) }
WideRects == { Rc(0, 0, 65535, 1) }

Inp(f, r, n, s, v) == [ format |-> f, rect |-> r, inLen |-> n, stream |-> s, valid |-> v ]

CallInputs ==
    { Inp(RGB888le, r, n, NoBytes, TRUE) : r \in ZeroRects, n \in 0..MaxIn }
    \cup { Inp(f, r, MaxIn, ValidStream(k, r, SpecCPixel(f)), TRUE) :
             f \in Formats, r \in SmallRects, k \in ValidKinds }
    \cup { Inp(f, r, MaxIn, Truncated(ValidStream(k, r, SpecCPixel(f))), FALSE) :
             f \in Formats, r \in SmallRects, k \in ValidKinds }
    \cup UNION { { Inp(f, r, MaxIn, s, FALSE) :
                      s \in BadStreams(r.width, r.height, SpecCPixel(f)) } :
                  f \in Formats, r \in { Rc(0, 0, 1, 1), Rc(0, 0, 3, 2) } }
    \cup { Inp(f, r, MaxIn, ValidStream(k, r, SpecCPixel(f)), TRUE) :
             f \in { RGB888le, RGBX888le, RGB332 }, r \in FullRects, k \in ValidKinds }
    \cup { Inp(f, r, MaxIn, ValidStream(k, r, SpecCPixel(f)), TRUE) :
             f \in { RGB888le, RGB565 }, r \in GridRects,
             k \in { "fill", "plain_rle", "packed2" } }
    \cup { Inp(RGB888le, r, MaxIn, Truncated(ValidStream(k, r, 3)), FALSE) :
             r \in GridRects, k \in { "fill", "plain_rle" } }
    \cup { Inp(RGB888le, r, 1, ValidStream("fill", r, 3), TRUE) : r \in WideRects }

-----------------------------------------------------------------------------
(* Decoder *)

NoRect == Rc(0, 0, 0, 0)
NoPixels == [ len |-> 0, last |-> << >> ]
NoRun == [ st |-> "none", value |-> 0, rest |-> NoBytes ]

\* a tile extent that is never cut to what is left of the rect
tile_size_mutant(sum, at, total) == TileSize

\* if at + 64 > total { total - at } else { 64 }, sum being at + 64
tile_size(sum, at, total) == IF sum > total THEN total - at ELSE TileSize

\* a u16 sum: exact when it fits; otherwise the build decides (overflow checks
\* panic, without them the sum wraps)
U16Add(a, b) ==
    IF a + b < U16Range THEN { [ st |-> "ok", value |-> a + b ] }
    ELSE { [ st |-> "panic(overflow)", value |-> 0 ], [ st |-> "ok", value |-> (a + b) % U16Range ] }

rlVars == << rlIn, rlOut >>
cursorVars == << setCursor, cursor >>
inputVars == << mouse_buttons, mouse_x, mouse_y, key_ctrl >>
qemuVars == << qemu_network_rtt, qemu_prev_update, qemu_next_update >>
historyVars == << covered, pressed, held >>
hostVars == << args, hpc, clock, evLeft, event, sent, encodings, vnc_format, size,
               incremental, ticks, qemuVars, inputVars, historyVars >>
bitVars == << reader, call, rows >>
authVars == << methods, username, password, choice >>
proxyVars == << ppc, client_stream, server_stream, outcomes >>
binVars == << authVars, proxyVars >>
sideVars == << rlVars, cursorVars, hostVars, bitVars, binVars >>
pixVars == << pixRead, pixSent, pixGot >>
paramVars == << format, rect, inLen, valid, prior >>
readerVars == << zin, stream, buffer, position >>
loopVars == << x, y, width, height >>
tileVars == << is_rle, palette_size, palette, pixels, count, row >>
cbVars == << ncalls, tile, cbLen, cbPix, inGrid, cbArea >>

decoderVars == << slot, pc, paramVars, readerVars, loopVars, tileVars, pixVars, result,
                   cbVars >>

\* Decoder::new(), before any call
DecoderInit ==
    /\ slot = "Some"
    /\ pc = "idle"
    /\ format = RGB888le /\ rect = NoRect /\ inLen = 0 /\ valid = FALSE
    /\ prior = "none"
    /\ zin = 0 /\ stream = NoBytes /\ buffer = 0 /\ position = 8
    /\ x = 0 /\ y = 0 /\ width = 0 /\ height = 0
    /\ is_rle = FALSE /\ palette_size = 0 /\ palette = << >> /\ pixels = NoPixels
    /\ count = 0 /\ row = 0
    /\ pixRead = 0 - 1 /\ pixSent = << >> /\ pixGot = << >>
    /\ result = "none"
    /\ ncalls = 0 /\ tile = NoRect /\ cbLen = 0 /\ cbPix = << >>
    /\ inGrid = TRUE /\ cbArea = 0

\* the parts of the state that the decoder does not touch, at rest
RunLengthIdle == rlIn = << >> /\ rlOut = NoRun
NoCursor == [ width |-> 0, height |-> 0, alpha |-> << >> ]
CursorIdle == setCursor = [ width |-> 0, height |-> 0, mask_bits |-> << >> ] /\ cursor = NoCursor

NoEvent == [ kind |-> "none", a |-> 0, b |-> 0, c |-> 0 ]
HostIdle ==
    /\ args = { } /\ hpc = "setup" /\ clock = 0 /\ evLeft = 0 /\ event = NoEvent
    /\ sent = << >> /\ encodings = << >> /\ vnc_format = RGB888le
    /\ size = << 0, 0 >> /\ incremental = TRUE /\ ticks = 0
    /\ qemu_network_rtt = 0 /\ qemu_prev_update = 0 /\ qemu_next_update = 0
    /\ mouse_buttons = 0 /\ mouse_x = 0 /\ mouse_y = 0 /\ key_ctrl = FALSE
    /\ covered = { } /\ pressed = { } /\ held = { }

\* BitReader::new(reader)
BitReader_new(s) == [ stream |-> s, buffer |-> 0, position |-> 8 ]
NoCall == [ count |-> 0, before |-> BitReader_new(NoBytes), st |-> "none", value |-> 0 ]
NoRows == [ mode |-> "none", palette_size |-> 0, width |-> 0, height |-> 0, row |-> 0,
            col |-> 0, idx |-> << >>, start |-> NoBytes, st |-> "ok" ]
BitsIdle == reader = BitReader_new(NoBytes) /\ call = NoCall /\ rows = NoRows

\* the authentication closure not yet called, the proxy not yet listening
AuthIdle == methods = << >> /\ username = FALSE /\ password = FALSE /\ choice = "pending"
ProxyIdle ==
    ppc = "start" /\ client_stream = "none" /\ server_stream = "none" /\ outcomes = << >>

Init ==
    /\ DecoderInit
    /\ AuthIdle
    /\ ProxyIdle
    /\ RunLengthIdle
    /\ CursorIdle
    /\ HostIdle
    /\ BitsIdle

\* the ways decode can panic: self.decompressor.take().unwrap() on an empty slot, a
\* slice end beyond the array, palette[index] beyond the palette, a u16 sum that
\* overflows in a build with overflow checks
Panics == { "panic(unwrap on None)", "panic(slice index)", "panic(palette index)",
            "panic(overflow)" }

\* a return of decode (or a panic inside it) with everything else as it is
Return(res) ==
    /\ pc' = IF res \in Panics THEN "panicked" ELSE "returned"
    /\ result' = res

\* a read moved the stream to s2 with status st: the compressed side follows
Consume(s2, st) ==
    /\ stream' = s2
    /\ zin' \in ZinAfter(zin, inLen, stream, s2, st)

\* decode(format, rect, input, callback) is entered: the lines up to the first loop
BeginDecode ==
    /\ pc = "idle"
    /\ \E c \in CallInputs :
         /\ format' = c.format /\ rect' = c.rect /\ inLen' = c.inLen /\ valid' = c.valid
         /\ IF slot = "Some"
            THEN /\ zin' = c.inLen /\ stream' = c.stream
                 /\ pc' = "row"
                 /\ result' = "none"
            ELSE /\ UNCHANGED << zin, stream >>
                 /\ Return("panic(unwrap on None)")
    /\ slot' = "None"
    /\ buffer' = 0 /\ position' = 8
    /\ y' = 0
    /\ UNCHANGED << prior, x, width, height, tileVars, pixVars, cbVars, sideVars >>

\* while y < rect.height { let height = ...; let mut x = 0;
RowHead ==
    /\ pc = "row"
    /\ IF y < rect.height
       THEN \E s \in U16Add(y, TileSize) :
              IF s.st \in Panics
              THEN /\ Return(s.st)
                   /\ UNCHANGED << x, height >>
              ELSE /\ height' = tile_size(s.value, y, rect.height)
                   /\ x' = 0
                   /\ pc' = "col"
                   /\ UNCHANGED result
       ELSE /\ pc' = "finish"
            /\ UNCHANGED << x, height, result >>
    /\ UNCHANGED << slot, paramVars, readerVars, y, width, tileVars, pixVars,
                    cbVars, sideVars >>

\* while x < rect.width { let width = ...;   and, after the loop, y += height
ColHead ==
    /\ pc = "col"
    /\ IF x < rect.width
       THEN \E s \in U16Add(x, TileSize) :
              IF s.st \in Panics
              THEN /\ Return(s.st)
                   /\ UNCHANGED << y, width >>
              ELSE /\ width' = tile_size(s.value, x, rect.width)
                   /\ pc' = "header"
                   /\ UNCHANGED << y, result >>
       ELSE \E s \in U16Add(y, height) :
              IF s.st \in Panics
              THEN /\ Return(s.st)
                   /\ UNCHANGED << y, width >>
              ELSE /\ y' = s.value
                   /\ pc' = "row"
                   /\ UNCHANGED << width, result >>
    /\ UNCHANGED << slot, paramVars, readerVars, x, height, tileVars, pixVars,
                    cbVars, sideVars >>

\* let is_rle = try!(reader.read_bit()); let palette_size = try!(reader.read_bits(7));
TileHeader ==
    /\ pc = "header"
    /\ \E b1 \in { read_bits(stream, buffer, position, 1) } :
       \E b2 \in { read_bits(b1.rest, b1.buffer, b1.position, 7) } :
       \E b \in { IF b1.st = "ok" THEN b2 ELSE b1 } :
           /\ Consume(b.rest, b.st)
           /\ buffer' = b.buffer /\ position' = b.position
           /\ IF b.st = "ok"
              THEN /\ is_rle' = (b1.value # 0)
                   /\ palette_size' = b2.value
                   /\ pc' = "palette"
                   /\ UNCHANGED result
              ELSE /\ Return(b.st)
                   /\ UNCHANGED << is_rle, palette_size >>
    /\ palette' = << >> /\ pixels' = NoPixels /\ count' = 0 /\ row' = 0
    /\ UNCHANGED << slot, paramVars, loopVars, pixVars, cbVars, sideVars >>

\* for _ in 0..palette_size { palette.push(try!(read_pixel(...))) }
ReadPalette ==
    /\ pc = "palette"
    /\ \E r \in { read_pixels(stream, position, pad_pixel(format),
                             compressed_bpp(format), palette_size) } :
           /\ Consume(r.rest, IF r.st \in Panics THEN "ok" ELSE r.st)
           /\ IF palette_size = 0 \/ r.st # "ok"
              THEN UNCHANGED pixVars
              ELSE /\ pixRead' = r.used
                   /\ pixSent' = Peek(stream, (palette_size - 1) * r.used,
                                      SpecCPixel(format))
                   /\ pixGot' = r.last
           /\ IF r.st = "ok"
              THEN /\ palette' = r.list
                   /\ pc' = "body"
                   /\ UNCHANGED result
              ELSE /\ Return(r.st)
                   /\ UNCHANGED palette
    /\ UNCHANGED << slot, paramVars, buffer, position, loopVars, is_rle,
                    palette_size, pixels, count, row, cbVars, sideVars >>

\* the pixel buffer after n more pixels, the last of them p
Push(px, n, p) == [ len |-> px.len + n * bpp(format), last |-> Slice(p, bpp(format)) ]

Area == width * height

\* (false, 0): for _ in 0..width * height { read_pixel; extend }
RawTile ==
    /\ pc = "body"
    /\ subencoding(is_rle, palette_size) = "raw"
    /\ \E r \in { read_pixels(stream, position, pad_pixel(format),
                             compressed_bpp(format), Area) } :
           /\ Consume(r.rest, IF r.st \in Panics THEN "ok" ELSE r.st)
           /\ IF r.st = "ok"
              THEN /\ pixels' = Push(pixels, Area, r.last)
                   /\ pixRead' = r.used
                   /\ pixSent' = Peek(stream, (Area - 1) * r.used, SpecCPixel(format))
                   /\ pixGot' = r.last
                   /\ pc' = "callback"
                   /\ UNCHANGED result
              ELSE /\ Return(r.st)
                   /\ UNCHANGED << pixels, pixVars >>
    /\ UNCHANGED << slot, paramVars, buffer, position, loopVars, is_rle,
                    palette_size, palette, count, row, cbVars, sideVars >>

\* (false, 1): for _ in 0..width * height { extend(&palette[0][0..bpp]) }
FillTile ==
    /\ pc = "body"
    /\ subencoding(is_rle, palette_size) = "fill"
    /\ pixels' = Push(pixels, Area, palette[1])
    /\ pc' = "callback"
    /\ UNCHANGED << slot, paramVars, readerVars, loopVars, is_rle, palette_size,
                    palette, count, row, pixVars, result, cbVars, sideVars >>

\* (false, 2..16): one row of indices, then reader.align()
PackedRow ==
    /\ pc = "body"
    /\ subencoding(is_rle, palette_size) = "packed"
    /\ row < height
    /\ \E r \in { packed_row(stream, bits_per_index(palette_size), palette_size,
                            width) } :
           /\ Consume(r.rest, IF r.st \in Panics THEN "ok" ELSE r.st)
           /\ buffer' = r.buffer
           /\ IF r.st = "ok"
              THEN /\ pixels' = Push(pixels, width, palette[r.index + 1])
                   /\ position' = align(r.position)
                   /\ row' = row + 1
                   /\ pc' = IF row + 1 < height THEN "body" ELSE "callback"
                   /\ UNCHANGED result
              ELSE /\ Return(r.st)
                   /\ position' = r.position
                   /\ UNCHANGED << pixels, row >>
    /\ UNCHANGED << slot, paramVars, loopVars, is_rle, palette_size, palette,
                    count, pixVars, cbVars, sideVars >>

\* (true, 0): one turn of while count < width * height { read_pixel; read_run_length }
PlainRleRun ==
    /\ pc = "body"
    /\ subencoding(is_rle, palette_size) = "plain_rle"
    /\ count < Area
    /\ \E p \in { read_pixel(stream, position, pad_pixel(format),
                            compressed_bpp(format)) } :
       \E l \in { read_run_length(p.rest, position) } :
       \E st \in { IF p.st # "ok" THEN p.st ELSE l.st } :
       \E s2 \in { IF p.st # "ok" THEN p.rest ELSE l.rest } :
           /\ Consume(s2, IF st \in Panics THEN "ok" ELSE st)
           /\ IF p.st = "ok"
              THEN /\ pixRead' = p.used
                   /\ pixSent' = Peek(stream, 0, SpecCPixel(format))
                   /\ pixGot' = p.pixel
              ELSE UNCHANGED pixVars
           /\ IF st = "ok"
              THEN /\ pixels' = Push(pixels, l.value, p.pixel)
                   /\ count' = count + l.value
                   /\ pc' = IF count + l.value < Area THEN "body" ELSE "callback"
                   /\ UNCHANGED result
              ELSE /\ Return(st)
                   /\ UNCHANGED << pixels, count >>
    /\ UNCHANGED << slot, paramVars, buffer, position, loopVars, is_rle,
                    palette_size, palette, row, cbVars, sideVars >>

\* (true, 2..127): one turn of while count < width * height { read_bit; read_bits(7);
\* read_run_length or 1; palette[index] }
PaletteRleRun ==
    /\ pc = "body"
    /\ subencoding(is_rle, palette_size) = "palette_rle"
    /\ count < Area
    /\ \E b1 \in { read_bits(stream, buffer, position, 1) } :
       \E b2 \in { read_bits(b1.rest, b1.buffer, b1.position, 7) } :
       \E b \in { IF b1.st = "ok" THEN b2 ELSE b1 } :
       \E l \in { IF b1.value # 0 THEN read_run_length(b2.rest, b2.position)
                  ELSE [ st |-> "ok", value |-> 1, rest |-> b2.rest ] } :
       \E st \in { IF b.st # "ok" THEN b.st
                   ELSE IF l.st # "ok" THEN l.st
                   ELSE IF b2.value >= palette_size THEN "panic(palette index)" ELSE "ok" } :
       \E s2 \in { IF b.st # "ok" THEN b.rest ELSE l.rest } :
           /\ Consume(s2, IF st \in Panics THEN "ok" ELSE st)
           /\ buffer' = b.buffer /\ position' = b.position
           /\ IF st = "ok"
              THEN /\ pixels' = Push(pixels, l.value, palette[b2.value + 1])
                   /\ count' = count + l.value
                   /\ pc' = IF count + l.value < Area THEN "body" ELSE "callback"
                   /\ UNCHANGED result
              ELSE /\ Return(st)
                   /\ UNCHANGED << pixels, count >>
    /\ UNCHANGED << slot, paramVars, loopVars, is_rle, palette_size, palette,
                    row, pixVars, cbVars, sideVars >>

\* _ => return Err(Error::Unexpected("ZRLE subencoding"))
BadSubencoding ==
    /\ pc = "body"
    /\ subencoding(is_rle, palette_size) = "bad"
    /\ Return("Unexpected(ZRLE subencoding)")
    /\ UNCHANGED << slot, paramVars, readerVars, loopVars, tileVars, pixVars,
                    cbVars, sideVars >>

\* let tile = Rect { ... }; if let false = try!(callback(tile, pixels)) { return Ok(false) }
\* x += width;
Callback ==
    /\ pc = "callback"
    /\ \E l \in U16Add(rect.left, x), t \in U16Add(rect.top, y), nx \in U16Add(x, width),
          ret \in { "true", "false", "err" } :
         IF l.st \in Panics \/ t.st \in Panics
         THEN /\ Return("panic(overflow)")
              /\ UNCHANGED << x, cbVars >>
         ELSE /\ ncalls' = ncalls + 1
              /\ tile' = Rc(l.value, t.value, width, height)
              /\ cbLen' = pixels.len
              /\ cbPix' = pixels.last
              /\ inGrid' = (inGrid /\ ncalls < GridCols(rect) * GridRows(rect)
                               /\ Rc(l.value, t.value, width, height) = GridTile(rect, ncalls))
              /\ cbArea' = cbArea + width * height
              /\ IF ret = "true"
                 THEN IF nx.st \in Panics
                      THEN Return(nx.st) /\ UNCHANGED x
                      ELSE x' = nx.value /\ pc' = "col" /\ UNCHANGED result
                 ELSE /\ Return(IF ret = "false" THEN "Ok(false)" ELSE "Err(callback)")
                      /\ UNCHANGED x
    /\ UNCHANGED << slot, paramVars, readerVars, y, width, height, tileVars,
                    pixVars, sideVars >>

\* self.decompressor = Some(try!(try!(reader.into_inner()).into_inner())); Ok(true)
Finish ==
    /\ pc = "finish"
    /\ LET b == BitReader_into_inner(position)
           z == ZlibReader_into_inner(zin)
       IN  IF b # "ok" THEN Return(b) /\ UNCHANGED slot
           ELSE IF z # "ok" THEN Return(z) /\ UNCHANGED slot
           ELSE Return("Ok(true)") /\ slot' = "Some"
    /\ UNCHANGED << paramVars, readerVars, loopVars, tileVars, pixVars, cbVars,
                    sideVars >>

\* decode has returned: its locals are gone, the caller goes on with the decoder
AfterReturn ==
    /\ pc = "returned"
    /\ pc' = "idle"
    /\ format' = RGB888le /\ rect' = NoRect /\ inLen' = 0 /\ valid' = FALSE
    /\ prior' = result
    /\ zin' = 0 /\ stream' = NoBytes /\ buffer' = 0 /\ position' = 8
    /\ x' = 0 /\ y' = 0 /\ width' = 0 /\ height' = 0
    /\ is_rle' = FALSE /\ palette_size' = 0 /\ palette' = << >> /\ pixels' = NoPixels
    /\ count' = 0 /\ row' = 0
    /\ pixRead' = 0 - 1 /\ pixSent' = << >> /\ pixGot' = << >>
    /\ result' = "none"
    /\ ncalls' = 0 /\ tile' = NoRect /\ cbLen' = 0 /\ cbPix' = << >>
    /\ inGrid' = TRUE /\ cbArea' = 0
    /\ UNCHANGED << slot, sideVars >>

Next ==
    \/ BeginDecode
    \/ RowHead
    \/ ColHead
    \/ TileHeader
    \/ ReadPalette
    \/ RawTile
    \/ FillTile
    \/ PackedRow
    \/ PlainRleRun
    \/ PaletteRleRun
    \/ BadSubencoding
    \/ Callback
    \/ Finish
    \/ AfterReturn

Spec == Init /\ [][Next]_vars

-----------------------------------------------------------------------------
(* read_run_length on its own: a byte-aligned reader over a stream that    *)
(* ends after the bytes of rlIn.                                           *)

RunBytes == { 0, 1, 254, 255 }

RunSeqs == UNION { [ 1..n -> RunBytes ] : n \in 0..MaxRunSeq }

InitRunLength ==
    /\ DecoderInit
    /\ AuthIdle
    /\ ProxyIdle
    /\ CursorIdle
    /\ HostIdle
    /\ BitsIdle
    /\ rlIn \in RunSeqs
    /\ rlOut = NoRun

\* let n = read_run_length(&mut reader)
RunLength ==
    /\ rlOut = NoRun
    /\ rlOut' = read_run_length(Bytes(rlIn), 8)
    /\ UNCHANGED << decoderVars, binVars, rlIn, cursorVars, hostVars, bitVars >>

NextRunLength == RunLength

SpecRunLength == InitRunLength /\ [][NextRunLength]_vars

-----------------------------------------------------------------------------
(* BitReader on its own, over a stream of a few bytes: either any sequence  *)
(* of read_bits and align calls, or the calls that the row loop of a packed *)
(* palette tile makes (for _ in 0..height { for _ in 0..width { read_bits } *)
(* align }), the palette lookup left out.                                   *)

InitBitReader ==
    /\ DecoderInit
    /\ AuthIdle
    /\ ProxyIdle
    /\ RunLengthIdle
    /\ CursorIdle
    /\ HostIdle
    /\ call = NoCall
    /\ \E n \in 0..MaxRowBytes : \E q \in [ 1..n -> { 27, 228 } ] :
         /\ reader = BitReader_new(Bytes(q))
         /\ \/ rows = [ NoRows EXCEPT !.mode = "calls" ]
            \/ \E ps \in { 2, 3, 4, 5, 16 }, w \in 1..MaxRowWidth, h \in 1..2 :
                 rows = [ NoRows EXCEPT !.mode = "rows", !.palette_size = ps, !.width = w,
                                        !.height = h, !.start = Bytes(q) ]

\* reader.read_bits(count), any count from 1 to 8
ReadBits ==
    /\ rows.mode = "calls" /\ call.st \notin { "panic(shift overflow)" }
    /\ \E cnt \in 1..8 :
       \E r \in read_bits_any(reader.stream, reader.buffer, reader.position, cnt) :
         /\ call' = [ count |-> cnt, before |-> reader, st |-> r.st, value |-> r.value ]
         /\ reader' = [ stream |-> r.rest, buffer |-> r.buffer, position |-> r.position ]
    /\ UNCHANGED << decoderVars, binVars, rlVars, cursorVars, hostVars, rows >>

\* reader.align() between two calls
Align ==
    /\ rows.mode = "calls" /\ call.st \notin { "panic(shift overflow)" }
    /\ reader.position # 8
    /\ reader' = [ reader EXCEPT !.position = align(reader.position) ]
    /\ call' = NoCall
    /\ UNCHANGED << decoderVars, binVars, rlVars, cursorVars, hostVars, rows >>

\* let index = try!(reader.read_bits(bits_per_index)): one turn of the inner loop
ReadIndex ==
    /\ rows.mode = "rows" /\ rows.st = "ok"
    /\ rows.row < rows.height /\ rows.col < rows.width
    /\ \E r \in { read_bits(reader.stream, reader.buffer, reader.position,
                             bits_per_index(rows.palette_size)) } :
         /\ call' = [ count |-> bits_per_index(rows.palette_size), before |-> reader,
                      st |-> r.st, value |-> r.value ]
         /\ reader' = [ stream |-> r.rest, buffer |-> r.buffer, position |-> r.position ]
         /\ rows' = IF r.st = "ok"
                    THEN [ rows EXCEPT !.col = rows.col + 1,
                                       !.idx = Append(rows.idx, r.value) ]
                    ELSE [ rows EXCEPT !.st = r.st ]
    /\ UNCHANGED << decoderVars, binVars, rlVars, cursorVars, hostVars >>

\* reader.align() at the end of the inner loop
AlignRow ==
    /\ rows.mode = "rows" /\ rows.st = "ok"
    /\ rows.row < rows.height /\ rows.col = rows.width
    /\ reader' = [ reader EXCEPT !.position = align(reader.position) ]
    /\ rows' = [ rows EXCEPT !.row = rows.row + 1, !.col = 0, !.idx = << >> ]
    /\ UNCHANGED << decoderVars, binVars, rlVars, cursorVars, hostVars, call >>

NextBitReader ==
    \/ ReadBits
    \/ Align
    \/ ReadIndex
    \/ AlignRow

SpecBitReader == InitBitReader /\ [][NextBitReader]_vars

-----------------------------------------------------------------------------
(* The client (src/bin/client.rs): a SetCursor event and the cursor texture *)
(* the event loop builds from it.  Of the pixels only the alpha that        *)
(* mask_cursor gives them is kept.                                          *)

\* let mask_stride = (width + 7) / 8
mask_stride(w) == (w + 7) \div 8

\* mask_byte & (1 << (7 - w))
MaskBit(byte, w) == ((byte \div (2^(7 - w))) % 2) * (2^(7 - w))

\* for y in 0..height { for x in 0..mask_stride { for w in 0..8 { mask_pixels.push(..) } } }
mask_pixels(w, h, mask_bits) ==
    [ k \in 1..(h * mask_stride(w) * 8) |-> MaskBit(mask_bits[((k - 1) \div 8) + 1], (k - 1) % 8) ]

\* mask_cursor: the loop reads one colour of in_pixels and one byte of mask_pixels per
\* turn until in_pixels (n pixels) ends; the alpha written is 255 when mask != 0
mask_cursor(n, mp) == [ i \in 1..n |-> IF mp[i] # 0 THEN 255 ELSE 0 ]

\* the events: sizes up to the bounds, width * height pixels, height * ceil(width / 8)
\* mask bytes (section 4.5 of the specification), each of them 0x00, 0xA5 or 0xFF
SetCursorEvents ==
    UNION { { [ width |-> w, height |-> h, mask_bits |-> m ] :
                m \in [ 1..(h * CeilDiv(w, 8)) -> { 0, 165, 255 } ] } :
            w \in 0..MaxCursorWidth, h \in 0..MaxCursorHeight }

InitCursor ==
    /\ DecoderInit
    /\ AuthIdle
    /\ ProxyIdle
    /\ RunLengthIdle
    /\ HostIdle
    /\ BitsIdle
    /\ setCursor \in SetCursorEvents
    /\ cursor = NoCursor

\* Event::SetCursor { size: (width, height), .., pixels, mask_bits } => { .. }
\* (an event of size zero leaves cursor = None)
SetCursor ==
    /\ cursor = NoCursor
    /\ setCursor.width > 0 /\ setCursor.height > 0
    /\ cursor' = [ width |-> setCursor.width, height |-> setCursor.height,
                   alpha |-> mask_cursor(setCursor.width * setCursor.height,
                                         mask_pixels(setCursor.width, setCursor.height,
                                                     setCursor.mask_bits)) ]
    /\ UNCHANGED << decoderVars, binVars, rlVars, setCursor, hostVars, bitVars >>

NextCursor == SetCursor

SpecCursor == InitCursor /\ [][NextCursor]_vars

-----------------------------------------------------------------------------
(* The client's main (src/bin/client.rs): the options, the set-up of the   *)
(* session and the main loop with its two event sources.  What the handlers *)
(* draw on the screen is left out; what they send to the server and the     *)
(* variables of main that decide it are kept.  The clock is read wherever   *)
(* the code calls sdl_timer.ticks(); between two reads it may have advanced.*)

FRAME_MS == 16

\* matches.get_flag(id) for an option declared with ArgAction::SetFalse: the flag is
\* true unless the option is given
get_flag(id) == id \notin args
view_only == get_flag("VIEW-ONLY")
qemu_hacks == get_flag("QEMU-HACKS")

\* the vnc side of FORMAT_MAP
FORMAT_MAP ==
    { RGB888le,
      Fmt(32, 24, FALSE, TRUE, 255, 255, 255, 0, 8, 16),
      Fmt(16, 16, FALSE, TRUE, 32, 64, 32, 11, 5, 0),
      Fmt(16, 16, FALSE, TRUE, 32, 64, 32, 0, 5, 11),
      Fmt(8, 8, FALSE, TRUE, 8, 8, 4, 5, 2, 0) }

\* a message to the server and an event, with the fields that matter
Msg(kind, flag, n, px, py) == [ kind |-> kind, flag |-> flag, n |-> n, x |-> px, y |-> py ]
Ev(kind, a, b, c) == [ kind |-> kind, a |-> a, b |-> b, c |-> c ]

\* an update request that is always incremental
request_update_mutant(sz, incr) == Msg("FramebufferUpdateRequest", TRUE, 0, sz[1], sz[2])

\* vnc.request_update(Rect { left: 0, top: 0, width, height }, incremental)
request_update(sz, incr) == Msg("FramebufferUpdateRequest", incr, 0, sz[1], sz[2])

\* a set_encodings list that does not depend on the quirk mode
set_encodings_mutant(q) == << "Zrle", "CopyRect", "Raw", "Cursor", "DesktopSize" >>

\* the list passed to vnc.set_encodings
set_encodings(q) ==
    IF q THEN << "Zrle", "DesktopSize" >>
    ELSE << "Zrle", "CopyRect", "Raw", "Cursor", "DesktopSize" >>

\* a value of sdl_timer.ticks() read after the value t was read
Later(t) == { t + d : d \in { 0, 600 } } \cap (0..MaxTicks)

\* the events of vnc.poll_iter(): Disconnected(None) and Disconnected(Some(error)),
\* Resize(a, b), PutPixels of the rect (left c, top 0, width a, height b), EndOfFrame,
\* and the events that only draw (CopyPixels, Clipboard, SetCursor) or are ignored
VncEvents ==
    { Ev("Disconnected", 0, 0, 0), Ev("Disconnected", 1, 0, 0),
      Ev("Resize", 200, 150, 0), Ev("Resize", 128, 64, 0),
      Ev("PutPixels", 100, 80, 0), Ev("PutPixels", 200, 150, 0), Ev("PutPixels", 64, 64, 64),
      Ev("PutPixels", 64, 64, 0),
      Ev("EndOfFrame", 0, 0, 0), Ev("Draw", 0, 0, 0) }

\* the events of sdl_events.wait_timeout_iter(): Quit, Window SizeChanged, KeyDown and
\* KeyUp of keycode a, TextInput of the character a, MouseMotion to (a, b),
\* MouseButtonDown and MouseButtonUp at (a, b) of the button c (as SDL numbers them:
\* Left 1, Right 3, X1 4, Unknown 0), MouseWheel by a, ClipboardUpdate, and any other event.
\* The keycodes are a (97), Return (13), LCtrl (1073742048) and AudioMute
\* (1073742086), which map_special_key does not know.
SdlEvents ==
    { Ev("Quit", 0, 0, 0), Ev("Window", 0, 0, 0), Ev("TextInput", 97, 0, 0),
      Ev("MouseMotion", 3, 4, 0), Ev("MouseMotion", 0 - 1, 2, 0),
      Ev("MouseWheel", 1, 0, 0), Ev("MouseWheel", 0 - 1, 0, 0), Ev("MouseWheel", 2, 0, 0),
      Ev("ClipboardUpdate", 0, 0, 0), Ev("Other", 0, 0, 0) }
    \cup { Ev(k, c, 0, 0) : k \in { "KeyDown", "KeyUp" }, c \in { 97, 13, 1073742048, 1073742086 } }
    \cup { Ev(k, 7, 9, c) : k \in { "MouseButtonDown", "MouseButtonUp" }, c \in { 1, 3, 4, 0 } }

\* map_special_key(alnum_ok, keycode) for the keycodes above; 0 stands for None
map_special_key(alnum_ok, keycode) ==
    IF keycode = 97 /\ alnum_ok THEN 97
    ELSE IF keycode = 13 THEN 65293
    ELSE IF keycode = 1073742048 THEN 65507
    ELSE 0

\* mouse_buttons |= bit and mouse_buttons &= !bit, for one bit (or none)
BitSet(m, bit) == IF bit = 0 \/ (m \div bit) % 2 = 1 THEN m ELSE m + bit
BitClear(m, bit) == IF bit = 0 \/ (m \div bit) % 2 = 0 THEN m ELSE m - bit

\* a table with the bits of the X11 button numbers (Right is button 3, bit 0x04;
\* here Right gets the bit of button 2)
mouse_button_mutant(btn) ==
    IF btn = 1 THEN 1 ELSE IF btn = 2 THEN 2 ELSE IF btn = 3 THEN 2
    ELSE IF btn = 4 THEN 32 ELSE IF btn = 5 THEN 64 ELSE 0

\* let mouse_button = match mouse_btn { Left => 0x01, Middle => 0x02, Right => 0x04,
\* X1 => 0x20, X2 => 0x40, Unknown => 0x00 }, the buttons as SDL numbers them
mouse_button(btn) ==
    IF btn = 1 THEN 1 ELSE IF btn = 2 THEN 2 ELSE IF btn = 3 THEN 4
    ELSE IF btn = 4 THEN 32 ELSE IF btn = 5 THEN 64 ELSE 0

\* a MouseMotion arm that sends in either mode
motion_mutant(q, m, px, py) == << Msg("PointerEvent", FALSE, m, px, py) >>

\* what the MouseMotion arm sends: if !qemu_hacks { vnc.send_pointer_event(..) }
motion(q, m, px, py) == IF ~q THEN << Msg("PointerEvent", FALSE, m, px, py) >> ELSE << >>

\* the second match of the SDL loop (the input events): the messages sent and the
\* new values of mouse_buttons, mouse_x, mouse_y and key_ctrl
input(e) ==
    LET same == [ sent |-> << >>, buttons |-> mouse_buttons, x |-> mouse_x, y |-> mouse_y,
                  ctrl |-> key_ctrl ]
        down == e.kind \in { "KeyDown", "MouseButtonDown" }
        ctrl == IF e.a = 1073742048 THEN down ELSE key_ctrl
        sym  == map_special_key(ctrl, e.a)
        btns == IF down THEN BitSet(mouse_buttons, mouse_button(e.c))
                ELSE BitClear(mouse_buttons, mouse_button(e.c))
        wbit == IF e.a = 1 THEN 8 ELSE 16
    IN  CASE e.kind \in { "KeyDown", "KeyUp" } ->
               [ same EXCEPT !.ctrl = ctrl,
                   !.sent = IF sym # 0 THEN << Msg("KeyEvent", down, sym, 0, 0) >> ELSE << >> ]
          [] e.kind = "TextInput" ->
               [ same EXCEPT !.sent = << Msg("KeyEvent", TRUE, 16777216 + e.a, 0, 0),
                                         Msg("KeyEvent", FALSE, 16777216 + e.a, 0, 0) >> ]
          [] e.kind = "MouseMotion" ->
               [ same EXCEPT !.x = e.a % U16Range, !.y = e.b % U16Range,
                   !.sent = motion(qemu_hacks, mouse_buttons, e.a % U16Range, e.b % U16Range) ]
          [] e.kind \in { "MouseButtonDown", "MouseButtonUp" } ->
               [ same EXCEPT !.x = e.a % U16Range, !.y = e.b % U16Range, !.buttons = btns,
                   !.sent = << Msg("PointerEvent", FALSE, btns, e.a % U16Range,
                                   e.b % U16Range) >> ]
          [] e.kind = "MouseWheel" /\ e.a \in { 1, 0 - 1 } ->
               [ same EXCEPT !.sent =
                   << Msg("PointerEvent", FALSE, BitSet(mouse_buttons, wbit), mouse_x, mouse_y),
                      Msg("PointerEvent", FALSE, mouse_buttons, mouse_x, mouse_y) >> ]
          [] e.kind = "ClipboardUpdate" ->
               [ same EXCEPT !.sent = << Msg("ClientCutText", FALSE, 0, 0, 0) >> ]
          [] OTHER -> same

\* the server's natural format: one of FORMAT_MAP, or one that is not (RGB565 proper)
InitHost ==
    /\ DecoderInit
    /\ AuthIdle
    /\ ProxyIdle
    /\ RunLengthIdle
    /\ CursorIdle
    /\ BitsIdle
    /\ args \in SUBSET { "VIEW-ONLY", "QEMU-HACKS" }
    /\ vnc_format \in { RGB888le, RGB565 }
    /\ size = << 100, 80 >>
    /\ evLeft = MaxEvents
    /\ hpc = "setup" /\ clock = 0 /\ event = NoEvent
    /\ sent = << >> /\ encodings = << >>
    /\ incremental = TRUE /\ ticks = 0
    /\ qemu_network_rtt = 0 /\ qemu_prev_update = 0 /\ qemu_next_update = 0
    /\ mouse_buttons = 0 /\ mouse_x = 0 /\ mouse_y = 0 /\ key_ctrl = FALSE
    /\ covered = { } /\ pressed = { } /\ held = { }

\* main from the choice of the format to the head of the loop
Setup ==
    /\ hpc = "setup"
    /\ vnc_format' = IF vnc_format \in FORMAT_MAP THEN vnc_format ELSE RGB888le
    /\ encodings' = Append(encodings, set_encodings(qemu_hacks))
    /\ sent' = (IF vnc_format \in FORMAT_MAP THEN << >>
                ELSE << Msg("SetPixelFormat", FALSE, 0, 0, 0) >>)
               \o << Msg("SetEncodings", FALSE, 0, 0, 0), request_update(size, FALSE) >>
    /\ incremental' = TRUE
    /\ qemu_network_rtt' = 1000
    /\ \E t1 \in Later(clock) : \E t2 \in Later(t1) :
         /\ qemu_prev_update' = t1
         /\ qemu_next_update' = t2 + (1000 \div 2)
         /\ clock' = t2
    /\ hpc' = "top"
    /\ UNCHANGED << decoderVars, binVars, rlVars, cursorVars, bitVars, args, evLeft, event, size, ticks,
                    inputVars, historyVars >>

\* 'running: loop { let ticks = sdl_timer.ticks(); canvas.present();
LoopTop ==
    /\ hpc = "top"
    /\ \E t \in Later(clock) : ticks' = t /\ clock' = t
    /\ hpc' = "poll"
    /\ sent' = << >> /\ event' = NoEvent
    /\ UNCHANGED << decoderVars, binVars, rlVars, cursorVars, bitVars, args, evLeft, encodings, vnc_format,
                    size, incremental, qemuVars, inputVars, historyVars >>

\* a PutPixels arm that takes any rect for the whole framebuffer
put_pixels_mutant(incr, e, sz) == TRUE

\* incremental |= vnc_rect == Rect { left: 0, top: 0, width, height }, for the
\* PutPixels event e of the rect (left e.c, top 0, width e.a, height e.b)
put_pixels(incr, e, sz) == incr \/ (e.c = 0 /\ << e.a, e.b >> = sz)

\* a Disconnected arm that goes on with the next event
Disconnected_mutant == "poll"

\* Event::Disconnected(..) => break 'running
Disconnected == "exited"

\* for event in vnc.poll_iter() { match event { .. }; if ticks() - ticks > FRAME_MS
\* { continue 'running } }: one turn, or the end of the iterator
PollVnc ==
    /\ hpc = "poll"
    /\ \/ /\ evLeft > 0
          /\ evLeft' = evLeft - 1
          /\ sent' = << >>
          /\ \E e \in VncEvents :
               /\ event' = e
               /\ size' = IF e.kind = "Resize" THEN << e.a, e.b >> ELSE size
               /\ incremental' =
                     IF e.kind = "Resize" THEN FALSE
                     ELSE IF e.kind = "PutPixels" THEN put_pixels(incremental, e, size)
                     ELSE incremental
               /\ covered' =
                     IF e.kind = "Resize" THEN { }
                     ELSE IF e.kind = "PutPixels" THEN covered \cup { << e.c, e.a, e.b >> }
                     ELSE covered
               /\ IF e.kind = "Disconnected"
                  THEN /\ hpc' = Disconnected
                       /\ UNCHANGED << clock, qemuVars >>
                  ELSE \E t1 \in Later(clock) : \E t2 \in Later(t1) : \E t3 \in Later(t2) :
                       \E t4 \in Later(t3) :
                         /\ IF e.kind = "EndOfFrame" /\ qemu_hacks
                            THEN /\ qemu_network_rtt' =
                                      ((qemu_network_rtt * 80) \div 100)
                                        + (((t1 - qemu_prev_update) * 20) \div 100)
                                 /\ qemu_prev_update' = t2
                                 /\ qemu_next_update' = t3 + (qemu_network_rtt' \div 2)
                            ELSE /\ t1 = t4
                                 /\ UNCHANGED qemuVars
                         /\ clock' = t4
                         /\ hpc' = IF t4 - ticks > FRAME_MS THEN "top" ELSE "poll"
       \/ /\ hpc' = "sdl"
          /\ sent' = << >> /\ event' = NoEvent
          /\ UNCHANGED << evLeft, clock, size, incremental, qemuVars, covered >>
    /\ UNCHANGED << decoderVars, binVars, rlVars, cursorVars, bitVars, args, encodings, vnc_format, ticks,
                    inputVars, pressed, held >>

\* for event in sdl_events.wait_timeout_iter(..) { match event { Quit => break 'running,
\* .. }; if view_only { continue }; match event { .. } }: one turn, or the timeout
WaitSdl ==
    /\ hpc = "sdl"
    /\ \/ /\ evLeft > 0
          /\ evLeft' = evLeft - 1
          /\ \E e \in SdlEvents : \E r \in { input(e) } :
               /\ event' = e
               /\ hpc' = IF e.kind = "Quit" THEN "exited" ELSE "sdl"
               /\ IF e.kind = "Quit" \/ view_only
                  THEN sent' = << >> /\ UNCHANGED << inputVars, pressed >>
                  ELSE /\ sent' = r.sent
                       /\ mouse_buttons' = r.buttons /\ mouse_x' = r.x /\ mouse_y' = r.y
                       /\ key_ctrl' = r.ctrl
                       /\ pressed' =
                             IF e.kind = "KeyDown" /\ r.sent # << >>
                             THEN { k \in pressed : k[1] # e.a } \cup { << e.a, r.sent[1].n >> }
                             ELSE IF e.kind = "KeyUp" THEN { k \in pressed : k[1] # e.a }
                             ELSE pressed
               /\ held' = IF e.kind = "MouseButtonDown" THEN held \cup { e.c }
                          ELSE IF e.kind = "MouseButtonUp" THEN held \ { e.c }
                          ELSE held
          /\ UNCHANGED clock
       \/ /\ \E t \in Later(clock) : clock' = t
          /\ hpc' = "update"
          /\ sent' = << >> /\ event' = NoEvent
          /\ UNCHANGED << evLeft, inputVars, pressed, held >>
    /\ UNCHANGED << decoderVars, binVars, rlVars, cursorVars, bitVars, args, encodings, vnc_format, size,
                    incremental, ticks, qemuVars, covered >>

\* a test that leaves the quirk mode out
poke_due_mutant(q, t, next) == t > next

\* qemu_hacks && sdl_timer.ticks() > qemu_next_update
poke_due(q, t, next) == q /\ t > next

\* if qemu_hacks && sdl_timer.ticks() > qemu_next_update { .. } else
\* { vnc.request_update(.., incremental) }: the test and the else branch
EndOfIteration ==
    /\ hpc = "update"
    /\ \E t \in Later(clock) :
         /\ clock' = t
         /\ IF poke_due(qemu_hacks, t, qemu_next_update)
            THEN hpc' = "poke" /\ sent' = << >>
            ELSE hpc' = "top" /\ sent' = << request_update(size, incremental) >>
    /\ event' = NoEvent
    /\ UNCHANGED << decoderVars, binVars, rlVars, cursorVars, bitVars, args, evLeft, encodings, vnc_format,
                    size, incremental, ticks, qemuVars, inputVars, historyVars >>

\* vnc.poke_qemu().unwrap(); qemu_next_update = sdl_timer.ticks() + qemu_network_rtt / 2
Poke ==
    /\ hpc = "poke"
    /\ sent' = << Msg("Poke", FALSE, 0, 0, 0) >>
    /\ \E t \in Later(clock) :
         /\ clock' = t
         /\ qemu_next_update' = t + (qemu_network_rtt \div 2)
    /\ hpc' = "top"
    /\ event' = NoEvent
    /\ UNCHANGED << decoderVars, binVars, rlVars, cursorVars, bitVars, args, evLeft, encodings, vnc_format,
                    size, incremental, ticks, qemu_network_rtt, qemu_prev_update,
                    inputVars, historyVars >>

NextHost ==
    \/ Setup
    \/ LoopTop
    \/ PollVnc
    \/ WaitSdl
    \/ EndOfIteration
    \/ Poke

SpecHost == InitHost /\ [][NextHost]_vars

\* The loop over the SDL events on its own: main as it first reaches
\* sdl_events.wait_timeout_iter (set-up done, no event of the server so far, the
\* clock not yet advanced), with MaxInputs events to come.
InitInput ==
    /\ DecoderInit
    /\ AuthIdle
    /\ ProxyIdle
    /\ RunLengthIdle
    /\ CursorIdle
    /\ BitsIdle
    /\ args \in SUBSET { "VIEW-ONLY", "QEMU-HACKS" }
    /\ vnc_format = RGB888le
    /\ size = << 100, 80 >>
    /\ evLeft = MaxInputs
    /\ hpc = "sdl" /\ clock = 0 /\ event = NoEvent
    /\ sent = << >> /\ encodings = << set_encodings(qemu_hacks) >>
    /\ incremental = TRUE /\ ticks = 0
    /\ qemu_network_rtt = 1000 /\ qemu_prev_update = 0 /\ qemu_next_update = 1000 \div 2
    /\ mouse_buttons = 0 /\ mouse_x = 0 /\ mouse_y = 0 /\ key_ctrl = FALSE
    /\ covered = { } /\ pressed = { } /\ held = { }

NextInput == WaitSdl

SpecInput == InitInput /\ [][NextInput]_vars

-----------------------------------------------------------------------------
(* The closure main passes to Client::from_tcp_stream to pick the          *)
(* authentication method.  Of the user name and the password only their    *)
(* presence decides; "Other" is any method that falls to the arm `_ => ()`. *)

AuthMethods == { "None", "Password", "AppleRemoteDesktop", "Other" }

RECURSIVE decider(_, _, _)
\* |methods| { for method in methods { match method { .. } } None }: the choice
\* returned for the methods ms, "declined" standing for None
decider(ms, user, pass) ==
    IF ms = << >> THEN "declined"
    ELSE IF Head(ms) = "None" THEN "None"
    ELSE IF Head(ms) = "Password" THEN (IF pass THEN "Password" ELSE "declined")
    ELSE IF Head(ms) = "AppleRemoteDesktop" /\ user /\ pass THEN "AppleRemoteDesktop"
    ELSE decider(Tail(ms), user, pass)

InitAuth ==
    /\ DecoderInit
    /\ RunLengthIdle
    /\ CursorIdle
    /\ HostIdle
    /\ BitsIdle
    /\ ProxyIdle
    /\ methods \in UNION { [ 1..n -> AuthMethods ] : n \in 0..MaxMethods }
    /\ username \in BOOLEAN /\ password \in BOOLEAN
    /\ choice = "pending"

\* the handshake calls the closure with the methods of the server
Decide ==
    /\ choice = "pending"
    /\ choice' = decider(methods, username, password)
    /\ UNCHANGED << decoderVars, rlVars, cursorVars, hostVars, bitVars, proxyVars, methods,
                    username, password >>

NextAuth == Decide

SpecAuth == InitAuth /\ [][NextAuth]_vars

-----------------------------------------------------------------------------
(* The proxy's main (src/bin/proxy.rs) from the head of its accept loop:   *)
(* the listener is bound.  Every call that returns a Result may fail; what *)
(* the session does with the two streams is left out.  A stream is "open", *)
(* "shutdown" (both directions) or "closed" (dropped); the values of an    *)
(* iteration stay visible until the next connection is accepted.           *)

InitProxy ==
    /\ DecoderInit
    /\ RunLengthIdle
    /\ CursorIdle
    /\ HostIdle
    /\ BitsIdle
    /\ AuthIdle
    /\ ppc = "accept" /\ client_stream = "none" /\ server_stream = "none"
    /\ outcomes = << >>

\* for incoming_stream in listener.incoming() { let client_stream = match
\* incoming_stream { Ok(stream) => stream, Err(error) => { ..; continue } };
Accept ==
    /\ ppc = "accept"
    /\ Len(outcomes) < MaxConns
    /\ \E r \in { "Ok", "Err" } :
         IF r = "Ok"
         THEN /\ client_stream' = "open" /\ ppc' = "connect"
              /\ UNCHANGED outcomes
         ELSE /\ client_stream' = "none" /\ ppc' = "accept"
              /\ outcomes' = Append(outcomes, "accept failed")
    /\ server_stream' = "none"
    /\ UNCHANGED << decoderVars, rlVars, cursorVars, hostVars, bitVars, authVars >>

\* let server_stream = match TcpStream::connect(..) { Ok(stream) => stream,
\* Err(error) => { ..; client_stream.shutdown(Shutdown::Both).unwrap(); continue } };
Connect ==
    /\ ppc = "connect"
    /\ \E r \in { "Ok", "Err" }, s \in { "Ok", "Err" } :
         IF r = "Ok"
         THEN /\ server_stream' = "open" /\ ppc' = "handshake"
              /\ UNCHANGED << client_stream, outcomes >>
         ELSE /\ UNCHANGED server_stream
              /\ IF s = "Ok"
                 THEN /\ client_stream' = "shutdown" /\ ppc' = "accept"
                      /\ outcomes' = Append(outcomes, "connect failed")
                 ELSE /\ client_stream' = "closed" /\ ppc' = "panicked"
                      /\ outcomes' = Append(outcomes, "panic(unwrap on Err)")
    /\ UNCHANGED << decoderVars, rlVars, cursorVars, hostVars, bitVars, authVars >>

\* let proxy = match vnc::Proxy::from_tcp_streams(server_stream, client_stream) {
\* Ok(proxy) => proxy, Err(error) => { ..; continue } };
Handshake ==
    /\ ppc = "handshake"
    /\ \E r \in { "Ok", "Err" } :
         IF r = "Ok"
         THEN /\ ppc' = "join"
              /\ UNCHANGED << client_stream, server_stream, outcomes >>
         ELSE /\ client_stream' = "closed" /\ server_stream' = "closed"
              /\ ppc' = "accept"
              /\ outcomes' = Append(outcomes, "handshake failed")
    /\ UNCHANGED << decoderVars, rlVars, cursorVars, hostVars, bitVars, authVars >>

\* match proxy.join() { Ok(()) => info!("session ended"), Err(error) => error!(..) } }
Join ==
    /\ ppc = "join"
    /\ \E r \in { "Ok", "Err" } :
         outcomes' = Append(outcomes, IF r = "Ok" THEN "session ended" ELSE "session failed")
    /\ client_stream' = "closed" /\ server_stream' = "closed"
    /\ ppc' = "accept"
    /\ UNCHANGED << decoderVars, rlVars, cursorVars, hostVars, bitVars, authVars >>

NextProxy ==
    \/ Accept
    \/ Connect
    \/ Handshake
    \/ Join

SpecProxy == InitProxy /\ [][NextProxy]_vars

-----------------------------------------------------------------------------
(* Properties of Decoder::decode *)

Ended == pc \in { "returned", "panicked" }

BytesPerPixel == format.bits_per_pixel \div 8

\* C1: after decode returns Ok(true) or Ok(false) the slot holds the inflate
\* context again
C1_SlotRestoredOnOk ==
    (pc = "returned" /\ result \in { "Ok(true)", "Ok(false)" }) => slot = "Some"

\* C2: decode returns Ok(true) only with the input slice drained and the bit reader
\* aligned; once the loops are over (y >= rect.height) leftover bits give
\* "leftover ZRLE bit data" and leftover input bytes "leftover ZRLE byte data",
\* also for a zero-area rect
C2_OkOnlyWhenDrained ==
    /\ result = "Ok(true)" => (zin = 0 /\ position = 8)
    /\ (pc = "returned" /\ y >= rect.height) =>
          result = IF position # 8 THEN "Unexpected(leftover ZRLE bit data)"
                   ELSE IF zin # 0 THEN "Unexpected(leftover ZRLE byte data)"
                   ELSE "Ok(true)"
    /\ (pc = "returned" /\ rect.width * rect.height = 0) =>
          result = IF inLen = 0 THEN "Ok(true)"
                   ELSE "Unexpected(leftover ZRLE byte data)"

\* a rect of several tiles was decoded to its end and input bytes were left over
C2_Witness ==
    /\ pc = "returned" /\ result = "Unexpected(leftover ZRLE byte data)"
    /\ ncalls > 1 /\ zin > 0

\* C3: a valid payload (any format, any of the subencodings) is accepted by a
\* decoder that holds its inflate context: decode does not end with an I/O error, a protocol error of a tile or a panic, and every
\* callback gets width * height * (bits_per_pixel / 8) bytes.  Whether the inflate
\* context has drained the input slice at the end is C2's matter.
C3_ValidPayloadAccepted ==
    /\ (valid /\ Ended /\ result # "panic(unwrap on None)") =>
          result \in { "Ok(true)", "Ok(false)", "Err(callback)",
                       "Unexpected(leftover ZRLE byte data)" }
    /\ (valid /\ ncalls > 0) => cbLen = tile.width * tile.height * BytesPerPixel

\* C4: every pixel buffer passed to the callback holds exactly width * height pixels
\* of bits_per_pixel / 8 bytes, whatever the payload
C4_BufferIsOneTile ==
    ncalls > 0 => cbLen = tile.width * tile.height * BytesPerPixel

\* the 3-byte cpixel case as section 4.6 and the claims delimit it
DepthFits == format.bits_per_pixel = 32 /\ format.true_colour /\ format.depth <= 24
LowByteUnused == pixel_mask(format) \cap (0..7) = {}
HighByteUnused == pixel_mask(format) \cap (24..31) = {}
ThreeByteCPixel == DepthFits /\ (LowByteUnused \/ HighByteUnused)

\* C5: outside the 3-byte cpixel case every cpixel read takes bits_per_pixel / 8 bytes
C5_PlainCPixelSize ==
    (~DepthFits /\ pixRead >= 0) => pixRead = BytesPerPixel

\* C6: in the 3-byte cpixel case every cpixel read takes 3 bytes, for both pad
\* placements and both endiannesses
C6_ThreeBytesConsumed ==
    (ThreeByteCPixel /\ pixRead >= 0) => pixRead = 3

\* the pad is byte 0: low byte unused on little-endian, or (else) high byte unused
\* on big-endian
PadInByte0 ==
    IF LowByteUnused THEN ~format.big_endian ELSE format.big_endian

\* C7: in 3-byte cpixel mode the pixel is the three transmitted bytes in order plus
\* a zero pad byte where the mask rule puts it; little-endian RGB888 turns
\* AA BB CC into AA BB CC 00
C7_PadPlacement ==
    /\ (ThreeByteCPixel /\ Len(pixSent) = 3) =>
          pixGot = IF PadInByte0 THEN << 0 >> \o pixSent ELSE pixSent \o << 0 >>
    /\ (format = RGB888le /\ pixSent = << 170, 187, 204 >>) =>
          pixGot = << 170, 187, 204, 0 >>

BadHeader ==
    \/ ~is_rle /\ palette_size \in 17..127
    \/ is_rle /\ palette_size = 1

\* C8: a tile header (false, 17..127) or (true, 1) makes decode fail with
\* Unexpected("ZRLE subencoding") and the callback is not invoked for that tile
C8_BadHeaderRejected ==
    /\ (BadHeader /\ Ended) => result = "Unexpected(ZRLE subencoding)"
    /\ BadHeader => pc # "callback"

\* C10: a successful decode has called the callback once per tile of the 64 x 64
\* grid, in row-major order and with the tile's geometry, so that the tiles cover
\* the rect exactly; a zero-area rect yields no callback
C10_OneCallbackPerGridTile ==
    /\ (pc = "returned" /\ result = "Ok(true)") =>
          /\ inGrid
          /\ ncalls = GridCols(rect) * GridRows(rect)
          /\ cbArea = rect.width * rect.height
    /\ rect.width * rect.height = 0 => ncalls = 0

\* a rect of 3 x 2 tiles with a short last column and a short last row was decoded
C10_Witness ==
    /\ pc = "returned" /\ result = "Ok(true)"
    /\ rect = Rc(10, 20, 130, 65) /\ ncalls = 6
    /\ tile = Rc(138, 84, 2, 1)

\* decode itself failed: it returned an error that is not the callback's
DecodeFailed ==
    pc = "returned" /\ result \notin { "Ok(true)", "Ok(false)", "Err(callback)" }

\* C11: when decode fails on a rect (truncated stream, bad subencoding, leftover
\* data) the callback was not invoked for any tile of that rect
C11_NoCallbackOnFailure ==
    DecodeFailed => ncalls = 0

\* a result that is an Err(..) of decode
IsErr(r) == r \notin ({ "none", "Ok(true)", "Ok(false)" } \cup Panics)

\* C12: a decode call that follows one that returned an error returns an error
\* itself (the slot was restored or is poisoned); it does not crash on an empty slot
C12_ErrorThenErrorNotCrash ==
    (IsErr(prior) /\ Ended) => IsErr(result)

-----------------------------------------------------------------------------
(* Properties of BitReader and of the packed palette rows *)

\* bits per index as C19 gives them: 1, 2, 4 for palette sizes 2, 3..4, 5..16
RowBits == IF rows.palette_size = 2 THEN 1 ELSE IF rows.palette_size <= 4 THEN 2 ELSE 4

\* bytes of one row: ceil(width * bits_per_index / 8)
RowLen == CeilDiv(rows.width * RowBits, 8)

\* bytes taken from the stream since the tile's rows began
Taken == Avail(rows.start) - Avail(reader.stream)

\* field number c (from 1) of cnt bits, most significant bit first, of the bytes that
\* follow the first off bytes of s
MsbField(s, off, c, cnt) ==
    (ByteAt(s, off + (((c - 1) * cnt) \div 8) + 1) \div (2^(8 - cnt - (((c - 1) * cnt) % 8))))
        % (2^cnt)

\* C19: in a packed palette tile every row of width indices takes exactly
\* ceil(width * bits_per_index / 8) bytes: the indices are the fields of the row's
\* bytes, most significant bit first, and every row starts on a byte of its own
\* (the rest of the last byte is dropped at the end of each row).  A row fails only
\* when the stream has too few bytes for it.
C19_PackedRowBytes ==
    rows.mode = "rows" =>
        /\ rows.st = "ok" =>
              /\ Taken = rows.row * RowLen + CeilDiv(rows.col * RowBits, 8)
              /\ rows.col = 0 => reader.position = 8
              /\ \A c \in 1..rows.col :
                    rows.idx[c] = MsbField(rows.start, rows.row * RowLen, c, RowBits)
        /\ rows.st # "ok" =>
              /\ rows.st = "Io(UnexpectedEof)"
              /\ Avail(rows.start) < rows.row * RowLen + CeilDiv((rows.col + 1) * RowBits, 8)

\* two rows of three 2-bit indices were read from two bytes
C19_Witness ==
    /\ rows.mode = "rows" /\ rows.st = "ok"
    /\ rows.palette_size = 3 /\ rows.width = 3 /\ rows.row = 2
    /\ Taken = 2 /\ Avail(reader.stream) = 1

\* C20: read_bits(count), 1 <= count <= 8, fails without consuming anything when the
\* field would straddle a byte boundary; otherwise it returns the next count bits of
\* the current byte, most significant first, and advances by count, taking a byte
\* from the stream exactly when the position was 8
C20_ReadBits ==
    (rows.mode = "calls" /\ call.st # "none") =>
        LET before == call.before
            load   == before.position = 8
            at     == IF load THEN 0 ELSE before.position
            cur    == IF load THEN ByteAt(before.stream, 1) ELSE before.buffer
        IN  /\ (~load /\ before.position + call.count > 8) =>
                  /\ call.st = "Io(unaligned ZRLE bit read)"
                  /\ reader = before
            /\ (at + call.count <= 8 /\ (load => Avail(before.stream) > 0)) =>
                  /\ call.st = "ok"
                  /\ call.value = (cur \div (2^(8 - at - call.count))) % (2^call.count)
                  /\ reader.position = at + call.count
                  /\ reader.buffer = cur
                  /\ Avail(reader.stream) = Avail(before.stream) - (IF load THEN 1 ELSE 0)

-----------------------------------------------------------------------------
(* Properties of the client *)

\* bit (7 - x mod 8) of mask_bits[y * ceil(width / 8) + x div 8] is set
MaskSet(ev, px, py) ==
    (ev.mask_bits[py * CeilDiv(ev.width, 8) + (px \div 8) + 1] \div (2^(7 - (px % 8)))) % 2 = 1

\* pixel (px, py) of the texture is opaque
Opaque(c, px, py) == c.alpha[py * c.width + px + 1] # 0

\* C13: cursor pixel (x, y) is opaque exactly when its bit of the MSB-first mask
\* with stride ceil(width / 8) is set, for every width
C13_CursorMask ==
    cursor # NoCursor =>
        \A px \in 0..(cursor.width - 1), py \in 0..(cursor.height - 1) :
            Opaque(cursor, px, py) <=> MaskSet(setCursor, px, py)

\* the kinds of the messages in a sequence
Kinds(msgs) == { msgs[i].kind : i \in 1..Len(msgs) }

InputKinds == { "KeyEvent", "PointerEvent", "ClientCutText" }

\* C14: once the event loop has received Disconnected (with or without a reason) it
\* has left the loop having sent nothing for that event, and it takes no further
\* step: no event is processed and no message is sent
C14_DisconnectedIsTerminal ==
    /\ [](event.kind = "Disconnected" => (hpc = "exited" /\ sent = << >>))
    /\ [][event.kind # "Disconnected"]_vars

\* Disconnected(Some(error)) ended the loop while more events were to come
C14_Witness ==
    event.kind = "Disconnected" /\ event.a = 1 /\ hpc = "exited" /\ evLeft > 0

\* the latest step sent one pointer event, with mask m at (px, py)
SentPointer(m, px, py) ==
    /\ Len(sent) = 1 /\ sent[1].kind = "PointerEvent"
    /\ sent[1].n = m /\ sent[1].x = px /\ sent[1].y = py

\* what C15 says of a step that handled a mouse event
MouseRule ==
    /\ event.kind = "MouseMotion" =>
          /\ mouse_x = event.a % U16Range /\ mouse_y = event.b % U16Range
          /\ IF qemu_hacks THEN sent = << >>
             ELSE SentPointer(mouse_buttons, mouse_x, mouse_y)
    /\ event.kind \in { "MouseButtonDown", "MouseButtonUp" } =>
          /\ mouse_x = event.a % U16Range /\ mouse_y = event.b % U16Range
          /\ SentPointer(mouse_buttons, mouse_x, mouse_y)
    /\ (event.kind = "MouseWheel" /\ event.a \in { 1, 0 - 1 }) =>
          /\ Len(sent) = 2 /\ Kinds(sent) = { "PointerEvent" }
          /\ \A i \in 1..2 : sent[i].x = mouse_x /\ sent[i].y = mouse_y

\* C15: in QEMU quirk mode a mouse motion sends nothing but updates the tracked
\* position, which the button and wheel events then carry; outside that mode every
\* motion sends a pointer event with the current button mask
C15_MotionRule == MouseRule

\* C15, amended: the same when the host does not ignore input (view_only is false)
C15_MotionRuleWhenForwarding == ~view_only => MouseRule

\* in quirk mode a wheel step was sent from (3, 4), where only a motion can have
\* taken the pointer
C15_Witness ==
    /\ ~view_only /\ qemu_hacks
    /\ event.kind = "MouseWheel" /\ Len(sent) = 2
    /\ sent[1].x = 3 /\ sent[1].y = 4 /\ sent[1].n = 8 /\ sent[2].n = 0

\* C16: the end of a main-loop iteration pokes exactly when the quirk mode is on and
\* the clock is past qemu_next_update, then sets qemu_next_update to now + RTT / 2 and
\* sends no update request; otherwise it sends one update request for the whole
\* framebuffer.  No other step of the loop sends either message, and without the
\* quirk mode there is no poke.
C16_PokeOrRequest ==
    [][ /\ hpc = "update" =>
             IF qemu_hacks /\ clock' > qemu_next_update
             THEN hpc' = "poke" /\ sent' = << >>
             ELSE /\ hpc' = "top"
                  /\ Len(sent') = 1 /\ sent'[1].kind = "FramebufferUpdateRequest"
                  /\ sent'[1].flag = incremental
                  /\ << sent'[1].x, sent'[1].y >> = size
        /\ hpc = "poke" =>
             /\ hpc' = "top"
             /\ Len(sent') = 1 /\ sent'[1].kind = "Poke"
             /\ qemu_next_update' = clock' + (qemu_network_rtt \div 2)
        /\ hpc \in { "top", "poll", "sdl" } =>
             Kinds(sent') \cap { "Poke", "FramebufferUpdateRequest" } = { }
        /\ ~qemu_hacks => "Poke" \notin Kinds(sent')
      ]_vars

\* a poke was sent and the next one scheduled
C16_Witness ==
    /\ qemu_hacks /\ hpc = "top" /\ Kinds(sent) = { "Poke" }
    /\ qemu_next_update = clock + (qemu_network_rtt \div 2)
    /\ qemu_network_rtt # 1000

\* C17: the host calls set_encodings once, with [Zrle, DesktopSize] in quirk mode and
\* with [Zrle, CopyRect, Raw, Cursor, DesktopSize] otherwise
C17_Encodings ==
    /\ hpc = "setup" => encodings = << >>
    /\ hpc # "setup" =>
          encodings = << IF qemu_hacks THEN << "Zrle", "DesktopSize" >>
                         ELSE << "Zrle", "CopyRect", "Raw", "Cursor", "DesktopSize" >> >>

\* the quirk mode is on and the loop is running after the short list was sent
C17_Witness ==
    /\ qemu_hacks /\ hpc = "poll" /\ encodings = << << "Zrle", "DesktopSize" >> >>

\* C18: with --view-only given no key event, pointer event or clipboard update is
\* sent for any SDL event; without it the input events are forwarded
C18_ViewOnlyOption ==
    /\ "VIEW-ONLY" \in args => Kinds(sent) \cap InputKinds = { }
    /\ ("VIEW-ONLY" \notin args /\ event.kind = "MouseButtonDown") =>
          Kinds(sent) = { "PointerEvent" }

-----------------------------------------------------------------------------
(* Properties of read_run_length *)

RECURSIVE SumOf(_)
SumOf(q) == IF q = << >> THEN 0 ELSE q[1] + SumOf(Tail(q))

AllButLast255(q) == Len(q) >= 1 /\ \A i \in 1..(Len(q) - 1) : q[i] = 255

Accepted(q) ==
    /\ rlOut.st = "ok"
    /\ rlOut.value = 1 + SumOf(q)
    /\ Avail(rlOut.rest) = 0
    /\ rlOut.value >= 1

\* C9: read_run_length accepts every non-empty byte sequence whose all-but-last
\* bytes are 255, returns 1 + the sum of the bytes (at least 1) and consumes
\* exactly those bytes
C9_RunLengthAccepts ==
    (rlOut # NoRun /\ AllButLast255(rlIn)) => Accepted(rlIn)

\* C9, amended: the same for the sequences whose last byte is not 255; every
\* result is at least 1
C9_RunLengthAcceptsTerminated ==
    /\ (rlOut # NoRun /\ AllButLast255(rlIn) /\ rlIn[Len(rlIn)] # 255) => Accepted(rlIn)
    /\ rlOut.st = "ok" => rlOut.value >= 1

\* 255, 255, 254 was read as 765
C9_Witness ==
    /\ rlIn = << 255, 255, 254 >>
    /\ rlOut.st = "ok" /\ rlOut.value = 765 /\ Avail(rlOut.rest) = 0

-----------------------------------------------------------------------------
(* Palette indices and the alignment of the bit reader inside decode *)

\* C21: every palette index decode uses in a packed-palette or palette-RLE tile is
\* below palette_size; one that is not is reported as an error and never becomes an
\* access beyond the palette
C21_IndexInPalette ==
    result # "panic(palette index)"

\* C22: the bit reader is byte-aligned at the start of every tile and at every
\* byte-level read, so decode never fails with "unaligned ZRLE byte read" nor with
\* "leftover ZRLE bit data"
C22_ByteAligned ==
    /\ pc \in { "row", "col", "header", "palette", "body", "callback", "finish" }
          => position = 8
    /\ result \notin { "Io(unaligned ZRLE byte read)",
                       "Unexpected(leftover ZRLE bit data)" }

\* the rows of a packed tile ended inside a byte and the tile is complete
C22_Witness ==
    /\ pc = "callback"
    /\ subencoding(is_rle, palette_size) = "packed"
    /\ (width * bits_per_index(palette_size)) % 8 # 0
    /\ row = height /\ height = 2
    /\ buffer # 0 /\ position = 8

-----------------------------------------------------------------------------
(* Properties of the client's set-up and of its update requests *)

\* the kinds of the messages of a sequence, in their order
KindSeq(msgs) == [ i \in 1..Len(msgs) |-> msgs[i].kind ]

\* C23: before the main loop the host sends SetPixelFormat (only when the server's
\* format is not one of FORMAT_MAP, and it then goes on with RGB888), then
\* SetEncodings, then one update request for the whole framebuffer that is not
\* incremental; nothing is sent before
C23_SetupOrder ==
    /\ [](hpc = "setup" => sent = << >>)
    /\ [][hpc = "setup" =>
            /\ KindSeq(sent') =
                  (IF vnc_format \in FORMAT_MAP THEN << >> ELSE << "SetPixelFormat" >>)
                    \o << "SetEncodings", "FramebufferUpdateRequest" >>
            /\ sent'[Len(sent')] = Msg("FramebufferUpdateRequest", FALSE, 0, size[1], size[2])
            /\ vnc_format' = IF vnc_format \in FORMAT_MAP THEN vnc_format ELSE RGB888le
            /\ Len(encodings') = 1
            /\ hpc' = "top"]_vars

\* the set-up of a session whose server format had to be replaced
C23_Witness ==
    /\ hpc = "top" /\ ticks = 0
    /\ KindSeq(sent) = << "SetPixelFormat", "SetEncodings", "FramebufferUpdateRequest" >>
    /\ vnc_format = RGB888le

\* the update requests among the messages of a sequence
Requests(msgs) == { msgs[i] : i \in { j \in 1..Len(msgs) : msgs[j].kind = "FramebufferUpdateRequest" } }

\* the event handled by this step is a PutPixels of the whole framebuffer
WholePutPixels ==
    /\ hpc = "poll" /\ event'.kind = "PutPixels"
    /\ event'.c = 0 /\ << event'.a, event'.b >> = size /\ size' = size

\* C24: handling Resize(w, h) makes the framebuffer w x h and the requests
\* non-incremental; from then on they stay non-incremental until a PutPixels event
\* of the whole framebuffer is handled, the size changes only by a Resize, and
\* every update request asks for (0, 0, w, h) with the flag as it then is
C24_FullUntilWholePutPixels ==
    [][/\ (hpc = "poll" /\ event'.kind = "Resize")
            => (size' = << event'.a, event'.b >> /\ ~incremental')
       /\ (~incremental /\ incremental') => WholePutPixels
       /\ size' # size => (hpc = "poll" /\ event'.kind = "Resize")
       /\ hpc # "setup" =>
            /\ Requests(sent') \subseteq { Msg("FramebufferUpdateRequest", incremental, 0,
                                               size[1], size[2]) }
            /\ (Requests(sent') # { } => UNCHANGED << size, incremental >>)]_vars

\* after a Resize and a PutPixels of a part of the new framebuffer the loop asked
\* for the whole new framebuffer, not incrementally
C24_Witness ==
    /\ hpc = "top" /\ size = << 200, 150 >> /\ covered = { << 64, 64, 64 >> }
    /\ sent = << Msg("FramebufferUpdateRequest", FALSE, 0, 200, 150) >>

\* the PutPixels rects since the latest Resize that lie inside the framebuffer cover
\* it (they all have top 0, so a column is covered by a rect of full height)
Covers(rects, sz) ==
    \A px \in 0..(sz[1] - 1) :
        \E r \in rects : r[1] <= px /\ px < r[1] + r[2] /\ r[1] + r[2] <= sz[1] /\ r[3] = sz[2]

\* C25: once the PutPixels events after a Resize cover the whole new framebuffer,
\* whatever rects they came in, the update requests are incremental again
C25_IncrementalOnceCovered ==
    (hpc \in { "top", "poll", "sdl", "update", "poke" } /\ Covers(covered, size))
       => incremental

-----------------------------------------------------------------------------
(* Properties of the client's keyboard and mouse handling *)

\* C26: when a key is released whose press sent KeyEvent(true, keysym), the host
\* sends KeyEvent(false, keysym) for it, whatever happened to Ctrl in between
C26_ReleaseFollowsPress ==
    [][(hpc = "sdl" /\ event'.kind = "KeyUp") =>
          \A k \in pressed :
              (k[1] = event'.a) => (sent' = << Msg("KeyEvent", FALSE, k[2], 0, 0) >>)]_vars

\* the button mask of a set of held buttons: Left 0x01, Middle 0x02, Right 0x04,
\* and the two extra buttons X1 0x20, X2 0x40
ButtonMask(S) ==
    (IF 1 \in S THEN 1 ELSE 0) + (IF 2 \in S THEN 2 ELSE 0) + (IF 3 \in S THEN 4 ELSE 0)
      + (IF 4 \in S THEN 32 ELSE 0) + (IF 5 \in S THEN 64 ELSE 0)

\* the masks of the pointer events of the latest step, by the buttons held
PointerMasks ==
    /\ \A i \in 1..Len(sent) :
          (sent[i].kind = "PointerEvent" /\ event.kind # "MouseWheel")
             => (sent[i].n = ButtonMask(held))
    /\ (~view_only /\ event.kind = "MouseWheel" /\ event.a \in { 1, 0 - 1 }) =>
          sent = << Msg("PointerEvent", FALSE,
                        ButtonMask(held) + (IF event.a = 1 THEN 8 ELSE 16),
                        mouse_x, mouse_y),
                    Msg("PointerEvent", FALSE, ButtonMask(held), mouse_x, mouse_y) >>
    /\ ~view_only => (mouse_buttons = ButtonMask(held))

\* C27: every pointer event carries the mask of the buttons held by the
\* MouseButtonDown and MouseButtonUp events so far; a wheel step sends that mask
\* with bit 0x08 (up) or 0x10 (down) added and then the mask itself, both at the
\* tracked position, and changes neither the tracked mask nor the position
C27_ButtonMask ==
    /\ []PointerMasks
    /\ [][(hpc = "sdl" /\ event'.kind = "MouseWheel")
             => UNCHANGED << mouse_buttons, mouse_x, mouse_y, held >>]_vars

\* a wheel step up while Left and Right are held
C27_Witness ==
    /\ ~view_only /\ event.kind = "MouseWheel" /\ event.a = 1
    /\ held = { 1, 3 } /\ Len(sent) = 2 /\ sent[1].n = 13 /\ sent[2].n = 5
    /\ mouse_x = 7 /\ mouse_y = 9

-----------------------------------------------------------------------------
(* Properties of the authentication closure *)

\* a method that can be attempted with the credentials given on the command line
Usable(m) ==
    \/ m = "None"
    \/ m = "Password" /\ password
    \/ m = "AppleRemoteDesktop" /\ username /\ password

\* C28: the closure declines only when none of the offered methods can be attempted
\* with the credentials given, whatever the order of the list; otherwise it returns
\* a choice for one of the offered methods that can
C28_DeclinesOnlyWithoutUsable ==
    /\ choice = "declined" => \A i \in 1..Len(methods) : ~Usable(methods[i])
    /\ choice \notin { "pending", "declined" } =>
          \E i \in 1..Len(methods) : methods[i] = choice /\ Usable(choice)

-----------------------------------------------------------------------------
(* Properties of the proxy's accept loop *)

\* C29: the accept loop survives every failure of a connection: after a failed
\* accept, a failed connect (the client stream then being shut down), a failed
\* handshake or a failed session main is back at the accept, it is never anywhere
\* but in the loop, and while a connection is being set up no earlier session is
\* still open
C29_AcceptLoopSurvives ==
    /\ ppc \in { "accept", "connect", "handshake", "join" }
    /\ (ppc = "accept" /\ outcomes # << >>) =>
          /\ outcomes[Len(outcomes)] \in { "accept failed", "connect failed",
                                            "handshake failed", "session failed",
                                            "session ended" }
          /\ outcomes[Len(outcomes)] = "connect failed" => client_stream = "shutdown"
    /\ ppc = "connect" => server_stream = "none"

====
